---- MODULE Spec2Model ----
(***************************************************************************)
(* Model of the wii-ext driver crate: the blocking and async transport     *)
(* interfaces, the Classic and Nunchuk facades built on them, the report   *)
(* decoders, the controller identification and the calibration.            *)
(*                                                                         *)
(* A driver call is one action.  The body of every Rust function is an     *)
(* operator on a "machine" record m that threads the driver fields, the    *)
(* bus trace and the error flag through the calls the function makes; the  *)
(* `?` operator is the test of m.err at the start of every step.           *)
(***************************************************************************)
EXTENDS Integers, Sequences, FiniteSets, TLC

\* ------------------------------------------------------------------ bounds
\* number of API calls (constructor included) made on one bus
MaxCalls == 3
\* a bus fault is injected at the FailAt-th transaction of a call (0: none)
MaxFailAt == 5

\* --------------------------------------------------------------- constants
EXT_I2C_ADDR == 82
INTERMESSAGE_DELAY_MICROSEC == 200
INTERMESSAGE_DELAY_MICROSEC_U32 == 200
\* the delay at both ends of the async handshake and after the async
\* resolution write
ASYNC_LONG_DELAY == 100000
\* register holding the identity block
ID_REGISTER == 250

U8_MAX == 255
I8_MIN == -128
I8_MAX == 127

\* ------------------------------------------------------------ bit helpers
\* bit k of the byte b
Bit(b, k) == (b \div (2 ^ k)) % 2

\* a & b, on 16 bits
RECURSIVE AndBits(_, _, _)
AndBits(a, b, k) ==
    IF k = 16 THEN 0
    ELSE (Bit(a, k) * Bit(b, k)) * (2 ^ k) + AndBits(a, b, k + 1)
\* the masks the decoders use, and a & mask tabulated for every byte
Masks == { 1, 2, 3, 4, 8, 16, 31, 32, 63, 64, 96, 128, 192, 224 }
AndTable == [ a \in 0..255 |-> [ b \in Masks |-> AndBits(a, b, 0) ] ]
BitAnd(a, b) ==
    IF a \in 0..255 /\ b \in Masks THEN AndTable[a][b] ELSE AndBits(a, b, 0)

\* a | b, on 16 bits
RECURSIVE OrBits(_, _, _)
OrBits(a, b, k) ==
    IF k = 16 THEN 0
    ELSE (IF Bit(a, k) + Bit(b, k) > 0 THEN 2 ^ k ELSE 0) + OrBits(a, b, k + 1)
\* a | b tabulated for the 5-bit operands of the Classic decoder
OrTable == [ a \in 0..31 |-> [ b \in 0..31 |-> OrBits(a, b, 0) ] ]
\* the merge of bit fields done with & in place of |
BitOr_and(a, b) == AndBits(a, b, 0)

BitOr(a, b) ==
    IF a \in 0..31 /\ b \in 0..31 THEN OrTable[a][b] ELSE OrBits(a, b, 0)

\* a >> k
Shr(a, k) == a \div (2 ^ k)

\* ------------------------------------------------------------- test data
CLASSIC_IDLE == <<97, 224, 145, 99, 255, 255>>
CLASSIC_LJOY_L == <<72, 226, 145, 99, 255, 255>>
\* CLASSIC_LJOY_L as recorded in src/src/test_data.rs
CLASSIC_LJOY_L_V0 == <<73, 225, 145, 99, 255, 255>>
CLASSIC_RTRIG == <<97, 224, 145, 126, 255, 255>>
CLASSIC_HD_IDLE == <<132, 127, 130, 136, 31, 26, 255, 255>>
PDP_LINK_HD_IDLE == <<126, 130, 120, 124, 0, 0, 255, 255>>
NUNCHUCK_IDLE == <<126, 129, 125, 139, 170, 95>>
NUNCHUCK_BTN_C == <<127, 128, 122, 138, 171, 181>>
NUNCHUCK_ID == <<0, 0, 164, 32, 0, 0>>
CLASSIC_ID == <<0, 0, 164, 32, 3, 1>>
NES_ID == <<1, 0, 164, 32, 1, 1>>

\* ------------------------------------------------- core::classic decoding
\* the scaling done by a shift: 5 bits moved to the top of the byte
scale_5bit_8bit_shift(reading) == (reading * 8) % 256

scale_5bit_8bit(reading) == ((reading * U8_MAX) \div 31) % 256

scale_6bit_8bit(reading) == ((reading * U8_MAX) \div 63) % 256

\* the standard decoder with buttons A and B on each other's bit
decode_classic_report_ab(data) ==
    [ joystick_left_x  |-> scale_6bit_8bit(BitAnd(data[1], 63)),
      joystick_left_y  |-> scale_6bit_8bit(BitAnd(data[2], 63)),
      joystick_right_x |-> scale_5bit_8bit(
                               BitOr(BitOr(Shr(BitAnd(data[3], 128), 7),
                                           Shr(BitAnd(data[2], 192), 5)),
                                     Shr(BitAnd(data[1], 192), 3))),
      joystick_right_y |-> scale_5bit_8bit(BitAnd(data[3], 31)),
      trigger_left     |-> scale_5bit_8bit(
                               BitOr(Shr(BitAnd(data[3], 96), 2),
                                     Shr(BitAnd(data[4], 224), 5))),
      trigger_right    |-> scale_5bit_8bit(BitAnd(data[4], 31)),
      dpad_right       |-> BitAnd(data[5], 128) = 0,
      dpad_down        |-> BitAnd(data[5], 64) = 0,
      button_trigger_l |-> BitAnd(data[5], 32) = 0,
      button_minus     |-> BitAnd(data[5], 16) = 0,
      button_home      |-> BitAnd(data[5], 8) = 0,
      button_plus      |-> BitAnd(data[5], 4) = 0,
      button_trigger_r |-> BitAnd(data[5], 2) = 0,
      button_zl        |-> BitAnd(data[6], 128) = 0,
      button_b         |-> BitAnd(data[6], 16) = 0,
      button_y         |-> BitAnd(data[6], 32) = 0,
      button_a         |-> BitAnd(data[6], 64) = 0,
      button_x         |-> BitAnd(data[6], 8) = 0,
      button_zr        |-> BitAnd(data[6], 4) = 0,
      dpad_left        |-> BitAnd(data[6], 2) = 0,
      dpad_up          |-> BitAnd(data[6], 1) = 0 ]

decode_classic_report(data) ==
    [ joystick_left_x  |-> scale_6bit_8bit(BitAnd(data[1], 63)),
      joystick_left_y  |-> scale_6bit_8bit(BitAnd(data[2], 63)),
      joystick_right_x |-> scale_5bit_8bit(
                               BitOr(BitOr(Shr(BitAnd(data[3], 128), 7),
                                           Shr(BitAnd(data[2], 192), 5)),
                                     Shr(BitAnd(data[1], 192), 3))),
      joystick_right_y |-> scale_5bit_8bit(BitAnd(data[3], 31)),
      trigger_left     |-> scale_5bit_8bit(
                               BitOr(Shr(BitAnd(data[3], 96), 2),
                                     Shr(BitAnd(data[4], 224), 5))),
      trigger_right    |-> scale_5bit_8bit(BitAnd(data[4], 31)),
      dpad_right       |-> BitAnd(data[5], 128) = 0,
      dpad_down        |-> BitAnd(data[5], 64) = 0,
      button_trigger_l |-> BitAnd(data[5], 32) = 0,
      button_minus     |-> BitAnd(data[5], 16) = 0,
      button_home      |-> BitAnd(data[5], 8) = 0,
      button_plus      |-> BitAnd(data[5], 4) = 0,
      button_trigger_r |-> BitAnd(data[5], 2) = 0,
      button_zl        |-> BitAnd(data[6], 128) = 0,
      button_b         |-> BitAnd(data[6], 64) = 0,
      button_y         |-> BitAnd(data[6], 32) = 0,
      button_a         |-> BitAnd(data[6], 16) = 0,
      button_x         |-> BitAnd(data[6], 8) = 0,
      button_zr        |-> BitAnd(data[6], 4) = 0,
      dpad_left        |-> BitAnd(data[6], 2) = 0,
      dpad_up          |-> BitAnd(data[6], 1) = 0 ]

\* the high-resolution decoder taking the bytes as LX, LY, RX, RY
decode_classic_hd_report_xyxy(data) ==
    [ joystick_left_x  |-> data[1],
      joystick_right_x |-> data[3],
      joystick_left_y  |-> data[2],
      joystick_right_y |-> data[4],
      trigger_left     |-> data[5],
      trigger_right    |-> data[6],
      dpad_right       |-> BitAnd(data[7], 128) = 0,
      dpad_down        |-> BitAnd(data[7], 64) = 0,
      button_trigger_l |-> BitAnd(data[7], 32) = 0,
      button_minus     |-> BitAnd(data[7], 16) = 0,
      button_home      |-> BitAnd(data[7], 8) = 0,
      button_plus      |-> BitAnd(data[7], 4) = 0,
      button_trigger_r |-> BitAnd(data[7], 2) = 0,
      button_zl        |-> BitAnd(data[8], 128) = 0,
      button_b         |-> BitAnd(data[8], 64) = 0,
      button_y         |-> BitAnd(data[8], 32) = 0,
      button_a         |-> BitAnd(data[8], 16) = 0,
      button_x         |-> BitAnd(data[8], 8) = 0,
      button_zr        |-> BitAnd(data[8], 4) = 0,
      dpad_left        |-> BitAnd(data[8], 2) = 0,
      dpad_up          |-> BitAnd(data[8], 1) = 0 ]

decode_classic_hd_report(data) ==
    [ joystick_left_x  |-> data[1],
      joystick_right_x |-> data[2],
      joystick_left_y  |-> data[3],
      joystick_right_y |-> data[4],
      trigger_left     |-> data[5],
      trigger_right    |-> data[6],
      dpad_right       |-> BitAnd(data[7], 128) = 0,
      dpad_down        |-> BitAnd(data[7], 64) = 0,
      button_trigger_l |-> BitAnd(data[7], 32) = 0,
      button_minus     |-> BitAnd(data[7], 16) = 0,
      button_home      |-> BitAnd(data[7], 8) = 0,
      button_plus      |-> BitAnd(data[7], 4) = 0,
      button_trigger_r |-> BitAnd(data[7], 2) = 0,
      button_zl        |-> BitAnd(data[8], 128) = 0,
      button_b         |-> BitAnd(data[8], 64) = 0,
      button_y         |-> BitAnd(data[8], 32) = 0,
      button_a         |-> BitAnd(data[8], 16) = 0,
      button_x         |-> BitAnd(data[8], 8) = 0,
      button_zr        |-> BitAnd(data[8], 4) = 0,
      dpad_left        |-> BitAnd(data[8], 2) = 0,
      dpad_up          |-> BitAnd(data[8], 1) = 0 ]

\* ClassicReading::from_data: the decoder that runs for an input, by length
ClassicDecoderFor(data) ==
    IF Len(data) = 6 THEN "standard"
    ELSE IF Len(data) = 8 THEN "hires"
    ELSE "none"

\* Option: Some(v) and None
Some(v) == [ some |-> TRUE, v |-> v ]
None == [ some |-> FALSE ]

\* from_data taking any input long enough for a decoder
Classic_from_data_atleast(data) ==
    IF Len(data) >= 8 THEN Some(decode_classic_hd_report(data))
    ELSE IF Len(data) >= 6 THEN Some(decode_classic_report(data))
    ELSE None

\* ClassicReading::from_data
Classic_from_data(data) ==
    IF Len(data) = 6 THEN Some(decode_classic_report(data))
    ELSE IF Len(data) = 8 THEN Some(decode_classic_hd_report(data))
    ELSE None

\* the subtraction wrapping around as an 8-bit `as i8` cast would
ext_u8_sub_wrapping(a, b) == ((a - b + 128) % 256) - 128

\* ext_u8_sub: the subtraction on i16, clamped to the i8 range
ext_u8_sub(a, b) ==
    LET res == a - b
    IN  IF res < I8_MIN THEN I8_MIN ELSE IF res > I8_MAX THEN I8_MAX ELSE res

ClassicCalibrationDefault ==
    [ joystick_left_x |-> 0, joystick_left_y |-> 0, joystick_right_x |-> 0,
      joystick_right_y |-> 0, trigger_left |-> 0, trigger_right |-> 0 ]

\* ClassicReadingCalibrated::new
ClassicReadingCalibrated_new(r, c) ==
    [ r EXCEPT
        !.joystick_left_x  = ext_u8_sub(r.joystick_left_x, c.joystick_left_x),
        !.joystick_left_y  = ext_u8_sub(r.joystick_left_y, c.joystick_left_y),
        !.joystick_right_x = ext_u8_sub(r.joystick_right_x, c.joystick_right_x),
        !.joystick_right_y = ext_u8_sub(r.joystick_right_y, c.joystick_right_y),
        !.trigger_left     = ext_u8_sub(r.trigger_left, c.trigger_left),
        !.trigger_right    = ext_u8_sub(r.trigger_right, c.trigger_right) ]

\* ------------------------------------------------- core::nunchuk decoding
\* from_data reading button C and button Z from each other's bit
Nunchuk_from_data_zc(data) ==
    IF Len(data) < 6 THEN None
    ELSE Some(
         [ joystick_x |-> data[1],
           joystick_y |-> data[2],
           accel_x |-> BitOr((data[3] * 4) % 65536 , BitAnd(Shr(data[6], 6), 3)),
           accel_y |-> BitOr((data[4] * 4) % 65536 , BitAnd(Shr(data[6], 4), 3)),
           accel_z |-> BitOr((data[5] * 4) % 65536 , BitAnd(Shr(data[6], 2), 3)),
           button_c |-> BitAnd(data[6], 1) = 0,
           button_z |-> BitAnd(data[6], 2) = 0 ])

Nunchuk_from_data(data) ==
    IF Len(data) < 6 THEN None
    ELSE Some(
         [ joystick_x |-> data[1],
           joystick_y |-> data[2],
           accel_x |-> BitOr((data[3] * 4) % 65536 , BitAnd(Shr(data[6], 6), 3)),
           accel_y |-> BitOr((data[4] * 4) % 65536 , BitAnd(Shr(data[6], 4), 3)),
           accel_z |-> BitOr((data[5] * 4) % 65536 , BitAnd(Shr(data[6], 2), 3)),
           button_c |-> BitAnd(data[6], 2) = 0,
           button_z |-> BitAnd(data[6], 1) = 0 ])

NunchukCalibrationDefault == [ joystick_x |-> 0, joystick_y |-> 0 ]

\* NunchukReadingCalibrated::new
NunchukReadingCalibrated_new(r, c) ==
    [ r EXCEPT
        !.joystick_x = ext_u8_sub(r.joystick_x, c.joystick_x),
        !.joystick_y = ext_u8_sub(r.joystick_y, c.joystick_y) ]

\* ------------------------------------------------ core::identify_controller
\* identify_controller not looking at byte 1 of the block
identify_controller_loose(id) ==
    IF id[3] # 164 \/ id[4] # 32 THEN "None"
    ELSE IF id[1] = 0 /\ id[5] = 0 /\ id[6] = 0 THEN "Nunchuk"
    ELSE IF id[1] = 0 /\ id[5] = 3 /\ id[6] = 1 THEN "Classic"
    ELSE IF id[1] = 1 /\ id[5] = 1 /\ id[6] = 1 THEN "ClassicPro"
    ELSE "None"

identify_controller(id) ==
    IF id[3] # 164 \/ id[4] # 32 THEN "None"
    ELSE IF id[1] = 0 /\ id[2] = 0 /\ id[5] = 0 /\ id[6] = 0 THEN "Nunchuk"
    ELSE IF id[1] = 0 /\ id[2] = 0 /\ id[5] = 3 /\ id[6] = 1 THEN "Classic"
    ELSE IF id[1] = 1 /\ id[2] = 0 /\ id[5] = 1 /\ id[6] = 1 THEN "ClassicPro"
    ELSE "None"

\* ------------------------------------------------------------ the bus
\* One entry of the bus trace: a write, a read or a delay of the driver.
Wr(bytes, ok) ==
    [ t |-> "write", addr |-> EXT_I2C_ADDR, bytes |-> bytes, n |-> Len(bytes),
      us |-> 0, ok |-> ok ]
Rd(n, data, ok) ==
    [ t |-> "read", addr |-> EXT_I2C_ADDR, bytes |-> data, n |-> n,
      us |-> 0, ok |-> ok ]
Dl(us) ==
    [ t |-> "delay", addr |-> 0, bytes |-> <<>>, n |-> 0, us |-> us, ok |-> TRUE ]

Filler(n) == [ i \in 1..n |-> 255 ]

\* What the extension controller returns for a block read of n bytes: the
\* current sample when its cursor is at register 0, the identity block when
\* it is at the identity register, and unrelated memory anywhere else.
DeviceRead(m, n) ==
    IF m.cursor = 0 THEN (IF n = 8 THEN m.s8 ELSE m.s6)
    ELSE IF m.cursor = ID_REGISTER /\ n = 6 THEN m.id
    ELSE Filler(n)

\* a write whose bus error is dropped instead of being returned
i2c_write_swallow(m, bytes) ==
    IF m.err # "none" THEN m
    ELSE IF m.ntx + 1 = m.failAt
         THEN [ m EXCEPT !.ev = Append(@, Wr(bytes, FALSE)), !.ntx = @ + 1 ]
         ELSE [ m EXCEPT !.ev = Append(@, Wr(bytes, TRUE)), !.ntx = @ + 1,
                         !.cursor = (bytes[1] + Len(bytes) - 1) % 256,
                         !.val = "unit" ]

\* I2c::write(EXT_I2C_ADDR, bytes).map_err(..): the first byte sets the
\* device cursor, which then advances over the bytes written after it.
i2c_write(m, bytes) ==
    IF m.err # "none" THEN m
    ELSE IF m.ntx + 1 = m.dropAt THEN [ m EXCEPT !.err = "Dropped" ]
    ELSE IF m.ntx + 1 = m.failAt
         THEN [ m EXCEPT !.ev = Append(@, Wr(bytes, FALSE)), !.ntx = @ + 1,
                         !.err = "I2C" ]
         ELSE [ m EXCEPT !.ev = Append(@, Wr(bytes, TRUE)), !.ntx = @ + 1,
                         !.cursor = (bytes[1] + Len(bytes) - 1) % 256,
                         !.val = "unit" ]

\* I2c::read(EXT_I2C_ADDR, &mut buffer).map_err(..).and(Ok(buffer)); in the
\* async drivers the transaction is an .await, where the caller may drop the
\* future of the call: the call then goes no further and returns nothing
i2c_read(m, n) ==
    IF m.err # "none" THEN m
    ELSE IF m.ntx + 1 = m.dropAt THEN [ m EXCEPT !.err = "Dropped" ]
    ELSE IF m.ntx + 1 = m.failAt
         THEN [ m EXCEPT !.ev = Append(@, Rd(n, <<>>, FALSE)), !.ntx = @ + 1,
                         !.err = "I2C" ]
         ELSE [ m EXCEPT !.ev = Append(@, Rd(n, DeviceRead(m, n), TRUE)),
                         !.ntx = @ + 1,
                         !.cursor = (@ + n) % 256,
                         !.val = DeviceRead(m, n) ]

\* DelayNs::delay_us
delay_us(m, micros) ==
    IF m.err # "none" THEN m ELSE [ m EXCEPT !.ev = Append(@, Dl(micros)) ]

\* --------------------------------------------- blocking_impl::interface
Interface_set_read_register_address(m, byte0) == i2c_write(m, <<byte0>>)

Interface_set_register(m, addr, byte1) == i2c_write(m, <<addr, byte1>>)

Interface_read_report(m) == i2c_read(m, 6)

\* the high-resolution read handing on one byte fewer than it read
Interface_read_hd_report_short(m) ==
    LET m1 == i2c_read(m, 8)
    IN  IF m1.err # "none" THEN m1
        ELSE [ m1 EXCEPT !.val = SubSeq(@, 1, 7) ]

Interface_read_hd_report(m) == i2c_read(m, 8)

\* Interface::init with the two handshake writes in the wrong order
Interface_init_swapped(m) ==
    LET m1 == delay_us(m, INTERMESSAGE_DELAY_MICROSEC * 2)
        m2 == Interface_set_read_register_address(m1, 0)
        m3 == delay_us(m2, INTERMESSAGE_DELAY_MICROSEC * 2)
        m4 == Interface_set_register(m3, 251, 0)
        m5 == delay_us(m4, INTERMESSAGE_DELAY_MICROSEC * 2)
        m6 == Interface_set_register(m5, 240, 85)
        m7 == delay_us(m6, INTERMESSAGE_DELAY_MICROSEC * 2)
    IN  m7

Interface_init(m) ==
    LET m1 == delay_us(m, INTERMESSAGE_DELAY_MICROSEC * 2)
        m2 == Interface_set_read_register_address(m1, 0)
        m3 == delay_us(m2, INTERMESSAGE_DELAY_MICROSEC * 2)
        m4 == Interface_set_register(m3, 240, 85)
        m5 == delay_us(m4, INTERMESSAGE_DELAY_MICROSEC * 2)
        m6 == Interface_set_register(m5, 251, 0)
        m7 == delay_us(m6, INTERMESSAGE_DELAY_MICROSEC * 2)
    IN  m7

Interface_read_id(m) ==
    LET m1 == Interface_set_read_register_address(m, ID_REGISTER)
        m2 == Interface_read_report(m1)
    IN  m2

Interface_identify_controller(m) ==
    LET m1 == Interface_read_id(m)
    IN  IF m1.err # "none" THEN m1
        ELSE [ m1 EXCEPT !.val = identify_controller(m1.val) ]

Interface_start_sample(m) == Interface_set_read_register_address(m, 0)

\* Interface::start_sample_and_wait without its delay
Interface_start_sample_and_wait_nodelay(m) ==
    Interface_set_read_register_address(m, 0)

Interface_start_sample_and_wait(m) ==
    LET m1 == Interface_set_read_register_address(m, 0)
        m2 == delay_us(m1, INTERMESSAGE_DELAY_MICROSEC)
    IN  m2

Interface_enable_hires(m) ==
    LET m1 == delay_us(m, INTERMESSAGE_DELAY_MICROSEC * 2)
        m2 == Interface_set_register(m1, 254, 3)
        m3 == delay_us(m2, INTERMESSAGE_DELAY_MICROSEC * 2)
    IN  m3

\* ------------------------------------------------ async_impl::interface
InterfaceAsync_set_read_register_address(m, byte0) == i2c_write(m, <<byte0>>)

InterfaceAsync_set_register(m, addr, byte1) == i2c_write(m, <<addr, byte1>>)

InterfaceAsync_start_sample(m) == InterfaceAsync_set_read_register_address(m, 0)

InterfaceAsync_set_read_register_address_with_delay(m, byte0) ==
    LET m1 == delay_us(m, INTERMESSAGE_DELAY_MICROSEC_U32)
    IN  InterfaceAsync_set_read_register_address(m1, byte0)

InterfaceAsync_set_register_with_delay(m, addr, byte1) ==
    LET m1 == delay_us(m, INTERMESSAGE_DELAY_MICROSEC_U32)
    IN  InterfaceAsync_set_register(m1, addr, byte1)

InterfaceAsync_read_ext_report_nocursor(m) ==
    LET m2 == delay_us(m, INTERMESSAGE_DELAY_MICROSEC_U32)
        m3 == i2c_read(m2, 6)
    IN  m3

InterfaceAsync_read_ext_report(m) ==
    LET m1 == InterfaceAsync_start_sample(m)
        m2 == delay_us(m1, INTERMESSAGE_DELAY_MICROSEC_U32)
        m3 == i2c_read(m2, 6)
    IN  m3

InterfaceAsync_read_hd_report(m) ==
    LET m1 == InterfaceAsync_start_sample(m)
        m2 == delay_us(m1, INTERMESSAGE_DELAY_MICROSEC_U32)
        m3 == i2c_read(m2, 8)
    IN  m3

InterfaceAsync_init(m) ==
    LET m1 == delay_us(m, ASYNC_LONG_DELAY)
        m2 == InterfaceAsync_set_read_register_address_with_delay(m1, 0)
        m3 == InterfaceAsync_set_register_with_delay(m2, 240, 85)
        m4 == InterfaceAsync_set_register_with_delay(m3, 251, 0)
        m5 == delay_us(m4, ASYNC_LONG_DELAY)
    IN  m5

InterfaceAsync_enable_hires(m) ==
    LET m1 == InterfaceAsync_set_register_with_delay(m, 254, 3)
        m2 == delay_us(m1, ASYNC_LONG_DELAY)
    IN  m2

InterfaceAsync_read_id(m) ==
    LET m1 == InterfaceAsync_set_read_register_address(m, ID_REGISTER)
        m2 == InterfaceAsync_read_ext_report(m1)
    IN  m2

InterfaceAsync_identify_controller(m) ==
    LET m1 == InterfaceAsync_read_id(m)
    IN  IF m1.err # "none" THEN m1
        ELSE [ m1 EXCEPT !.val = identify_controller(m1.val) ]

\* --------------------------------------------- blocking_impl::classic
\* Classic::read_classic_report ignoring the hires field
Classic_read_classic_report_always6(m) ==
    LET m1 == Interface_read_report(m)
    IN  IF m1.err # "none" THEN m1
        ELSE IF ~Classic_from_data(m1.val).some
             THEN [ m1 EXCEPT !.err = "InvalidInputData" ]
             ELSE [ m1 EXCEPT !.raw = m1.val,
                              !.decoder = ClassicDecoderFor(m1.val),
                              !.val = Classic_from_data(m1.val).v ]

Classic_read_classic_report(m) ==
    IF m.hires
    THEN LET m1 == Interface_read_hd_report(m)
         IN  IF m1.err # "none" THEN m1
             ELSE IF ~Classic_from_data(m1.val).some
                  THEN [ m1 EXCEPT !.err = "InvalidInputData" ]
                  ELSE [ m1 EXCEPT !.raw = m1.val,
                                   !.decoder = ClassicDecoderFor(m1.val),
                                   !.val = Classic_from_data(m1.val).v ]
    ELSE LET m1 == Interface_read_report(m)
         IN  IF m1.err # "none" THEN m1
             ELSE IF ~Classic_from_data(m1.val).some
                  THEN [ m1 EXCEPT !.err = "InvalidInputData" ]
                  ELSE [ m1 EXCEPT !.raw = m1.val,
                                   !.decoder = ClassicDecoderFor(m1.val),
                                   !.val = Classic_from_data(m1.val).v ]

Classic_read_classic_no_wait(m) ==
    LET m1 == Interface_start_sample(m)
    IN  Classic_read_classic_report(m1)

Classic_read_report_blocking(m) ==
    LET m1 == Interface_start_sample_and_wait(m)
    IN  Classic_read_classic_report(m1)

\* read_blocking returning the reading without subtracting the baseline
Classic_read_blocking_raw(m) == Classic_read_report_blocking(m)

Classic_read_blocking(m) ==
    LET m1 == Classic_read_report_blocking(m)
    IN  IF m1.err # "none" THEN m1
        ELSE [ m1 EXCEPT !.val = ClassicReadingCalibrated_new(m1.val, m1.calibration) ]

\* the CalibrationData literal built by update_calibration from a reading
ClassicCalibrationFrom(data) ==
    [ joystick_left_x  |-> data.joystick_left_x,
      joystick_left_y  |-> data.joystick_left_y,
      joystick_right_x |-> data.joystick_right_x,
      joystick_right_y |-> data.joystick_right_y,
      trigger_left     |-> data.trigger_left,
      trigger_right    |-> data.trigger_left ]

\* update_calibration clearing the stored baseline when its sample fails
Classic_update_calibration_clearing(m) ==
    LET m1 == Classic_read_report_blocking(m)
    IN  IF m1.err # "none"
        THEN [ m1 EXCEPT !.calibration = ClassicCalibrationDefault,
                         !.baselineFrom = <<>> ]
        ELSE [ m1 EXCEPT !.calibration = ClassicCalibrationFrom(m1.val),
                         !.baselineFrom = m1.raw,
                         !.val = "unit" ]

Classic_update_calibration(m) ==
    LET m1 == Classic_read_report_blocking(m)
    IN  IF m1.err # "none" THEN m1
        ELSE [ m1 EXCEPT !.calibration = ClassicCalibrationFrom(m1.val),
                         !.baselineFrom = m1.raw,
                         !.val = "unit" ]

Classic_init(m) ==
    LET m1 == Interface_init(m)
        m2 == Classic_update_calibration(m1)
    IN  m2

\* Classic::new returning the struct literal without running init
Classic_new_noinit(m) ==
    [ m EXCEPT !.hires = FALSE,
               !.calibration = ClassicCalibrationDefault,
               !.baselineFrom = <<>>,
               !.val = "unit" ]

\* Classic::new: the struct literal, then init()?
Classic_new(m) ==
    LET classic == [ m EXCEPT !.hires = FALSE,
                              !.calibration = ClassicCalibrationDefault,
                              !.baselineFrom = <<>> ]
    IN  Classic_init(classic)

\* Classic::enable_hires without the recalibration
Classic_enable_hires_norecal(m) ==
    LET m1 == Interface_enable_hires(m)
        m2 == IF m1.err # "none" THEN m1 ELSE [ m1 EXCEPT !.hires = TRUE ]
    IN  m2

Classic_enable_hires(m) ==
    LET m1 == Interface_enable_hires(m)
        m2 == IF m1.err # "none" THEN m1 ELSE [ m1 EXCEPT !.hires = TRUE ]
        m3 == Classic_update_calibration(m2)
    IN  m3

Classic_identify_controller(m) == Interface_identify_controller(m)

\* --------------------------------------------- blocking_impl::nunchuk
Nunchuk_read_nunchuk(m) ==
    LET m1 == Interface_read_report(m)
    IN  IF m1.err # "none" THEN m1
        ELSE IF ~Nunchuk_from_data(m1.val).some
             THEN [ m1 EXCEPT !.err = "InvalidInputData" ]
             ELSE [ m1 EXCEPT !.raw = m1.val, !.val = Nunchuk_from_data(m1.val).v ]

Nunchuk_read_report_blocking(m) ==
    LET m1 == Interface_start_sample(m)
    IN  Nunchuk_read_nunchuk(m1)

Nunchuk_read_blocking(m) ==
    LET m1 == Nunchuk_read_report_blocking(m)
    IN  IF m1.err # "none" THEN m1
        ELSE [ m1 EXCEPT !.val = NunchukReadingCalibrated_new(m1.val, m1.calibration) ]

\* update_calibration storing the two joystick axes in each other's field
Nunchuk_update_calibration_swapped(m) ==
    LET m1 == Nunchuk_read_report_blocking(m)
    IN  IF m1.err # "none" THEN m1
        ELSE [ m1 EXCEPT !.calibration = [ joystick_x |-> m1.val.joystick_y,
                                           joystick_y |-> m1.val.joystick_x ],
                         !.baselineFrom = m1.raw,
                         !.val = "unit" ]

Nunchuk_update_calibration(m) ==
    LET m1 == Nunchuk_read_report_blocking(m)
    IN  IF m1.err # "none" THEN m1
        ELSE [ m1 EXCEPT !.calibration = [ joystick_x |-> m1.val.joystick_x,
                                           joystick_y |-> m1.val.joystick_y ],
                         !.baselineFrom = m1.raw,
                         !.val = "unit" ]

\* init stopping after the handshake, with no calibration sample
Nunchuk_init_nocal(m) == Interface_init(m)

Nunchuk_init(m) ==
    LET m1 == Interface_init(m)
    IN  Nunchuk_update_calibration(m1)

Nunchuk_new(m) ==
    LET nunchuk == [ m EXCEPT !.calibration = NunchukCalibrationDefault,
                              !.baselineFrom = <<>> ]
    IN  Nunchuk_init(nunchuk)

Nunchuk_identify_controller(m) == Interface_identify_controller(m)

\* ------------------------------------------------ async_impl::classic
ClassicAsync_read_classic_report(m) ==
    IF m.hires
    THEN LET m1 == InterfaceAsync_read_hd_report(m)
         IN  IF m1.err # "none" THEN m1
             ELSE IF ~Classic_from_data(m1.val).some
                  THEN [ m1 EXCEPT !.err = "InvalidInputData" ]
                  ELSE [ m1 EXCEPT !.raw = m1.val,
                                   !.decoder = ClassicDecoderFor(m1.val),
                                   !.val = Classic_from_data(m1.val).v ]
    ELSE LET m1 == InterfaceAsync_read_ext_report(m)
         IN  IF m1.err # "none" THEN m1
             ELSE IF ~Classic_from_data(m1.val).some
                  THEN [ m1 EXCEPT !.err = "InvalidInputData" ]
                  ELSE [ m1 EXCEPT !.raw = m1.val,
                                   !.decoder = ClassicDecoderFor(m1.val),
                                   !.val = Classic_from_data(m1.val).v ]

ClassicAsync_read_report(m) == ClassicAsync_read_classic_report(m)

ClassicAsync_read(m) ==
    LET m1 == ClassicAsync_read_classic_report(m)
    IN  IF m1.err # "none" THEN m1
        ELSE [ m1 EXCEPT !.val = ClassicReadingCalibrated_new(m1.val, m1.calibration) ]

ClassicAsync_update_calibration(m) ==
    LET m1 == ClassicAsync_read_report(m)
    IN  IF m1.err # "none" THEN m1
        ELSE [ m1 EXCEPT !.calibration = ClassicCalibrationFrom(m1.val),
                         !.baselineFrom = m1.raw,
                         !.val = "unit" ]

ClassicAsync_init(m) ==
    LET m1 == InterfaceAsync_init(m)
        m2 == ClassicAsync_update_calibration(m1)
    IN  m2

\* ClassicAsync::new: the struct literal only
ClassicAsync_new(m) ==
    [ m EXCEPT !.hires = FALSE,
               !.calibration = ClassicCalibrationDefault,
               !.baselineFrom = <<>>,
               !.val = "unit" ]

ClassicAsync_enable_hires(m) == InterfaceAsync_enable_hires(m)

ClassicAsync_read_id(m) == InterfaceAsync_read_id(m)

ClassicAsync_identify_controller(m) == InterfaceAsync_identify_controller(m)

\* ------------------------------------------------ async_impl::nunchuk
NunchukAsync_read_classic_report(m) ==
    LET m1 == InterfaceAsync_read_ext_report(m)
    IN  IF m1.err # "none" THEN m1
        ELSE IF ~Nunchuk_from_data(m1.val).some
             THEN [ m1 EXCEPT !.err = "InvalidInputData" ]
             ELSE [ m1 EXCEPT !.raw = m1.val, !.val = Nunchuk_from_data(m1.val).v ]

NunchukAsync_read_report(m) == NunchukAsync_read_classic_report(m)

NunchukAsync_read(m) ==
    LET m1 == NunchukAsync_read_classic_report(m)
    IN  IF m1.err # "none" THEN m1
        ELSE [ m1 EXCEPT !.val = NunchukReadingCalibrated_new(m1.val, m1.calibration) ]

NunchukAsync_update_calibration(m) ==
    LET m1 == NunchukAsync_read_report(m)
    IN  IF m1.err # "none" THEN m1
        ELSE [ m1 EXCEPT !.calibration = [ joystick_x |-> m1.val.joystick_x,
                                           joystick_y |-> m1.val.joystick_y ],
                         !.baselineFrom = m1.raw,
                         !.val = "unit" ]

NunchukAsync_init(m) ==
    LET m1 == InterfaceAsync_init(m)
        m2 == NunchukAsync_update_calibration(m1)
    IN  m2

NunchukAsync_new(m) ==
    [ m EXCEPT !.calibration = NunchukCalibrationDefault,
               !.baselineFrom = <<>>,
               !.val = "unit" ]

NunchukAsync_read_id(m) == InterfaceAsync_read_id(m)

NunchukAsync_identify_controller(m) == InterfaceAsync_identify_controller(m)

\* ------------------------------------------------------------ the state
VARIABLES
    kind,          \* which driver owns the bus
    constructed,   \* a driver value exists (new has returned one)
    hires,         \* Classic / ClassicAsync: the hires field
    calibration,   \* the calibration field
    baselineFrom,  \* the raw report the calibration was captured from
    cursor,        \* the read cursor of the extension controller
    bus,           \* every bus transaction and delay issued so far
    calls,         \* the API calls made so far, with their outcome
    ret,           \* what the last call returned
    decoder,       \* the decoder branch the last call ran
    arg,           \* core functions called on their own: the arguments
    res            \* core functions called on their own: the result

vars == << kind, constructed, hires, calibration, baselineFrom, cursor, bus,
           calls, ret, decoder, arg, res >>

Kinds == { "Classic", "Nunchuk", "ClassicAsync", "NunchukAsync" }
IsClassic == kind \in { "Classic", "ClassicAsync" }

CalibrationDefault(k) ==
    IF k \in { "Classic", "ClassicAsync" } THEN ClassicCalibrationDefault
    ELSE NunchukCalibrationDefault

\* what the controller can hold while a call runs: its standard sample, its
\* high-resolution sample and its identity block
Contents ==
    IF IsClassic
    THEN { [ s6 |-> CLASSIC_IDLE,  s8 |-> CLASSIC_HD_IDLE,  id |-> CLASSIC_ID ],
           [ s6 |-> CLASSIC_RTRIG, s8 |-> PDP_LINK_HD_IDLE, id |-> NES_ID ],
           [ s6 |-> CLASSIC_LJOY_L_V0, s8 |-> PDP_LINK_HD_IDLE,
             id |-> NUNCHUCK_ID ] }
    ELSE { [ s6 |-> NUNCHUCK_IDLE,  s8 |-> CLASSIC_HD_IDLE, id |-> NUNCHUCK_ID ],
           [ s6 |-> NUNCHUCK_BTN_C, s8 |-> CLASSIC_HD_IDLE, id |-> CLASSIC_ID ],
           [ s6 |-> NUNCHUCK_IDLE,  s8 |-> CLASSIC_HD_IDLE, id |-> NES_ID ] }

Init ==
    /\ kind \in Kinds
    /\ constructed = FALSE
    /\ hires = FALSE
    /\ calibration = CalibrationDefault(kind)
    /\ baselineFrom = <<>>
    /\ cursor = 0
    /\ bus = <<>>
    /\ calls = <<>>
    /\ ret = [ err |-> "none", val |-> "unit" ]
    /\ decoder = "none"
    /\ arg = [ fn |-> "none" ]
    /\ res = [ done |-> FALSE ]

\* the machine a call starts from: the driver fields, an empty trace, the
\* transaction at which the bus faults and what the controller holds
Machine(f, c) ==
    [ hires |-> hires, calibration |-> calibration,
      baselineFrom |-> baselineFrom, cursor |-> cursor,
      ev |-> <<>>, ntx |-> 0, failAt |-> f, s6 |-> c.s6, s8 |-> c.s8, id |-> c.id,
      err |-> "none", val |-> "unit", raw |-> <<>>, decoder |-> "none",
      dropAt |-> 0 ]

\* the machine of an async call whose future the caller drops while it is
\* suspended before its k-th transaction; the bus does not fault
MachineDropped(k, c) == [ Machine(0, c) EXCEPT !.dropAt = k ]

\* the call has returned: the driver fields and the trace it leaves
Commit(op, m, exists) ==
    /\ bus' = bus \o m.ev
    /\ calls' = Append(calls, [ op |-> op, ok |-> m.err = "none",
                                at |-> Len(bus), hiresBefore |-> hires ])
    /\ cursor' = m.cursor
    /\ hires' = m.hires
    /\ calibration' = m.calibration
    /\ baselineFrom' = m.baselineFrom
    /\ ret' = [ err |-> m.err, val |-> IF m.err = "none" THEN m.val ELSE "none" ]
    /\ decoder' = m.decoder
    /\ constructed' = exists
    /\ UNCHANGED << kind, arg, res >>

\* a constructor can be called: no driver exists yet
Fresh(k) == kind = k /\ ~constructed /\ Len(calls) < MaxCalls

\* a method can be called: the driver exists
Ready(k) == kind = k /\ constructed /\ Len(calls) < MaxCalls

\* ---------------------------------------------------------- the API calls
Call_Classic_new ==
    /\ Fresh("Classic")
    /\ \E f \in 0..MaxFailAt, c \in Contents :
          \E m \in { Classic_new(Machine(f, c)) } : Commit("new", m, m.err = "none")

Call_Classic_init ==
    /\ Ready("Classic")
    /\ \E f \in 0..MaxFailAt, c \in Contents :
          \E m \in { Classic_init(Machine(f, c)) } : Commit("init", m, TRUE)

Call_Classic_update_calibration ==
    /\ Ready("Classic")
    /\ \E f \in 0..MaxFailAt, c \in Contents :
          \E m \in { Classic_update_calibration(Machine(f, c)) } : Commit("update_calibration", m, TRUE)

Call_Classic_enable_hires ==
    /\ Ready("Classic")
    /\ \E f \in 0..MaxFailAt, c \in Contents :
          \E m \in { Classic_enable_hires(Machine(f, c)) } : Commit("enable_hires", m, TRUE)

Call_Classic_identify_controller ==
    /\ Ready("Classic")
    /\ \E f \in 0..MaxFailAt, c \in Contents :
          \E m \in { Classic_identify_controller(Machine(f, c)) } : Commit("identify_controller", m, TRUE)

Call_Classic_read_classic_no_wait ==
    /\ Ready("Classic")
    /\ \E f \in 0..MaxFailAt, c \in Contents :
          \E m \in { Classic_read_classic_no_wait(Machine(f, c)) } : Commit("read_classic_no_wait", m, TRUE)

Call_Classic_read_report_blocking ==
    /\ Ready("Classic")
    /\ \E f \in 0..MaxFailAt, c \in Contents :
          \E m \in { Classic_read_report_blocking(Machine(f, c)) } : Commit("read_report_blocking", m, TRUE)

Call_Classic_read_blocking ==
    /\ Ready("Classic")
    /\ \E f \in 0..MaxFailAt, c \in Contents :
          \E m \in { Classic_read_blocking(Machine(f, c)) } : Commit("read_blocking", m, TRUE)

Call_Nunchuk_new ==
    /\ Fresh("Nunchuk")
    /\ \E f \in 0..MaxFailAt, c \in Contents :
          \E m \in { Nunchuk_new(Machine(f, c)) } : Commit("new", m, m.err = "none")

Call_Nunchuk_init ==
    /\ Ready("Nunchuk")
    /\ \E f \in 0..MaxFailAt, c \in Contents :
          \E m \in { Nunchuk_init(Machine(f, c)) } : Commit("init", m, TRUE)

Call_Nunchuk_update_calibration ==
    /\ Ready("Nunchuk")
    /\ \E f \in 0..MaxFailAt, c \in Contents :
          \E m \in { Nunchuk_update_calibration(Machine(f, c)) } : Commit("update_calibration", m, TRUE)

Call_Nunchuk_identify_controller ==
    /\ Ready("Nunchuk")
    /\ \E f \in 0..MaxFailAt, c \in Contents :
          \E m \in { Nunchuk_identify_controller(Machine(f, c)) } : Commit("identify_controller", m, TRUE)

Call_Nunchuk_read_report_blocking ==
    /\ Ready("Nunchuk")
    /\ \E f \in 0..MaxFailAt, c \in Contents :
          \E m \in { Nunchuk_read_report_blocking(Machine(f, c)) } : Commit("read_report_blocking", m, TRUE)

Call_Nunchuk_read_blocking ==
    /\ Ready("Nunchuk")
    /\ \E f \in 0..MaxFailAt, c \in Contents :
          \E m \in { Nunchuk_read_blocking(Machine(f, c)) } : Commit("read_blocking", m, TRUE)

Call_ClassicAsync_new ==
    /\ Fresh("ClassicAsync")
    /\ \E f \in 0..MaxFailAt, c \in Contents :
          \E m \in { ClassicAsync_new(Machine(f, c)) } : Commit("new", m, m.err = "none")

Call_ClassicAsync_init ==
    /\ Ready("ClassicAsync")
    /\ \E f \in 0..MaxFailAt, c \in Contents :
          \E m \in { ClassicAsync_init(Machine(f, c)) } : Commit("init", m, TRUE)

Call_ClassicAsync_update_calibration ==
    /\ Ready("ClassicAsync")
    /\ \E f \in 0..MaxFailAt, c \in Contents :
          \E m \in { ClassicAsync_update_calibration(Machine(f, c)) } : Commit("update_calibration", m, TRUE)

Call_ClassicAsync_read ==
    /\ Ready("ClassicAsync")
    /\ \E f \in 0..MaxFailAt, c \in Contents :
          \E m \in { ClassicAsync_read(Machine(f, c)) } : Commit("read", m, TRUE)

Call_ClassicAsync_enable_hires ==
    /\ Ready("ClassicAsync")
    /\ \E f \in 0..MaxFailAt, c \in Contents :
          \E m \in { ClassicAsync_enable_hires(Machine(f, c)) } : Commit("enable_hires", m, TRUE)

Call_ClassicAsync_read_id ==
    /\ Ready("ClassicAsync")
    /\ \E f \in 0..MaxFailAt, c \in Contents :
          \E m \in { ClassicAsync_read_id(Machine(f, c)) } : Commit("read_id", m, TRUE)

Call_ClassicAsync_identify_controller ==
    /\ Ready("ClassicAsync")
    /\ \E f \in 0..MaxFailAt, c \in Contents :
          \E m \in { ClassicAsync_identify_controller(Machine(f, c)) } : Commit("identify_controller", m, TRUE)

Call_NunchukAsync_new ==
    /\ Fresh("NunchukAsync")
    /\ \E f \in 0..MaxFailAt, c \in Contents :
          \E m \in { NunchukAsync_new(Machine(f, c)) } : Commit("new", m, m.err = "none")

Call_NunchukAsync_init ==
    /\ Ready("NunchukAsync")
    /\ \E f \in 0..MaxFailAt, c \in Contents :
          \E m \in { NunchukAsync_init(Machine(f, c)) } : Commit("init", m, TRUE)

Call_NunchukAsync_update_calibration ==
    /\ Ready("NunchukAsync")
    /\ \E f \in 0..MaxFailAt, c \in Contents :
          \E m \in { NunchukAsync_update_calibration(Machine(f, c)) } : Commit("update_calibration", m, TRUE)

Call_NunchukAsync_read ==
    /\ Ready("NunchukAsync")
    /\ \E f \in 0..MaxFailAt, c \in Contents :
          \E m \in { NunchukAsync_read(Machine(f, c)) } : Commit("read", m, TRUE)

Call_NunchukAsync_read_id ==
    /\ Ready("NunchukAsync")
    /\ \E f \in 0..MaxFailAt, c \in Contents :
          \E m \in { NunchukAsync_read_id(Machine(f, c)) } : Commit("read_id", m, TRUE)

Call_NunchukAsync_identify_controller ==
    /\ Ready("NunchukAsync")
    /\ \E f \in 0..MaxFailAt, c \in Contents :
          \E m \in { NunchukAsync_identify_controller(Machine(f, c)) } : Commit("identify_controller", m, TRUE)

\* the caller drops the future of ClassicAsync::read() at one of its awaits
Drop_ClassicAsync_read ==
    /\ Ready("ClassicAsync")
    /\ \E k \in 1..MaxFailAt, c \in Contents :
          \E m \in { ClassicAsync_read(MachineDropped(k, c)) } :
             m.err = "Dropped" /\ Commit("read", m, TRUE)

\* the caller drops the future of ClassicAsync::init() at one of its awaits
Drop_ClassicAsync_init ==
    /\ Ready("ClassicAsync")
    /\ \E k \in 1..MaxFailAt, c \in Contents :
          \E m \in { ClassicAsync_init(MachineDropped(k, c)) } :
             m.err = "Dropped" /\ Commit("init", m, TRUE)

\* the caller drops the future of NunchukAsync::read() at one of its awaits
Drop_NunchukAsync_read ==
    /\ Ready("NunchukAsync")
    /\ \E k \in 1..MaxFailAt, c \in Contents :
          \E m \in { NunchukAsync_read(MachineDropped(k, c)) } :
             m.err = "Dropped" /\ Commit("read", m, TRUE)

\* the caller drops the future of NunchukAsync::init() at one of its awaits
Drop_NunchukAsync_init ==
    /\ Ready("NunchukAsync")
    /\ \E k \in 1..MaxFailAt, c \in Contents :
          \E m \in { NunchukAsync_init(MachineDropped(k, c)) } :
             m.err = "Dropped" /\ Commit("init", m, TRUE)

Next ==
    \/ Call_Classic_new
    \/ Call_Classic_init
    \/ Call_Classic_update_calibration
    \/ Call_Classic_enable_hires
    \/ Call_Classic_identify_controller
    \/ Call_Classic_read_classic_no_wait
    \/ Call_Classic_read_report_blocking
    \/ Call_Classic_read_blocking
    \/ Call_Nunchuk_new
    \/ Call_Nunchuk_init
    \/ Call_Nunchuk_update_calibration
    \/ Call_Nunchuk_identify_controller
    \/ Call_Nunchuk_read_report_blocking
    \/ Call_Nunchuk_read_blocking
    \/ Call_ClassicAsync_new
    \/ Call_ClassicAsync_init
    \/ Call_ClassicAsync_update_calibration
    \/ Call_ClassicAsync_read
    \/ Call_ClassicAsync_enable_hires
    \/ Call_ClassicAsync_read_id
    \/ Call_ClassicAsync_identify_controller
    \/ Call_NunchukAsync_new
    \/ Call_NunchukAsync_init
    \/ Call_NunchukAsync_update_calibration
    \/ Call_NunchukAsync_read
    \/ Call_NunchukAsync_read_id
    \/ Call_NunchukAsync_identify_controller
    \/ Drop_ClassicAsync_read
    \/ Drop_ClassicAsync_init
    \/ Drop_NunchukAsync_read
    \/ Drop_NunchukAsync_init

Spec == Init /\ [][Next]_vars

\* ------------------------------------- the core functions on their own
\* The decoding and calibration functions of core:: are public and pure;
\* here they are applied to arguments drawn from bounded sets, with no
\* driver and no bus.

\* the longest byte slice handed to a from_data
MaxLen == 9

ClassicAxes == { "joystick_left_x", "joystick_left_y", "joystick_right_x",
                 "joystick_right_y", "trigger_left", "trigger_right" }
NunchukAxes == { "joystick_x", "joystick_y" }

\* a ClassicReading whose six axes are six different bytes, starting at a
ClassicReadingOf(a, b) ==
    [ joystick_left_x  |-> a,
      joystick_left_y  |-> (a + 37) % 256,
      joystick_right_x |-> (a + 74) % 256,
      joystick_right_y |-> (a + 111) % 256,
      trigger_left     |-> (a + 148) % 256,
      trigger_right    |-> (a + 185) % 256,
      dpad_right       |-> b,
      dpad_down        |-> ~b,
      button_trigger_l |-> b,
      button_minus     |-> ~b,
      button_home      |-> b,
      button_plus      |-> ~b,
      button_trigger_r |-> b,
      button_zl        |-> ~b,
      button_b         |-> b,
      button_y         |-> ~b,
      button_a         |-> b,
      button_x         |-> ~b,
      button_zr        |-> b,
      dpad_left        |-> ~b,
      dpad_up          |-> b ]

\* a classic CalibrationData whose six fields are six different bytes
ClassicCalibrationOf(a) ==
    [ joystick_left_x  |-> a,
      joystick_left_y  |-> (a + 101) % 256,
      joystick_right_x |-> (a + 202) % 256,
      joystick_right_y |-> (a + 47) % 256,
      trigger_left     |-> (a + 148) % 256,
      trigger_right    |-> (a + 249) % 256 ]

\* a NunchukReading with different joystick axes
NunchukReadingOf(a, b) ==
    [ joystick_x |-> a,
      joystick_y |-> (a + 37) % 256,
      accel_x |-> 4 * a + 1,
      accel_y |-> 4 * ((a + 74) % 256) + 2,
      accel_z |-> 4 * ((a + 111) % 256) + 3,
      button_c |-> b,
      button_z |-> ~b ]

NunchukCalibrationOf(a) ==
    [ joystick_x |-> a, joystick_y |-> (a + 101) % 256 ]

\* a byte slice of n bytes
ByteSeeds == { 1, 37, 85, 131, 170, 255 }
Bytes(seed, n) == [ i \in 1..n |-> (seed * i) % 256 ]

\* the arguments of one call of a core function
ClassicCalibratedArgs(a, b) ==
    [ fn |-> "ClassicReadingCalibrated_new",
      r |-> ClassicReadingOf(a, a % 2 = 0),
      c |-> ClassicCalibrationOf(b) ]
NunchukCalibratedArgs(a, b) ==
    [ fn |-> "NunchukReadingCalibrated_new",
      r |-> NunchukReadingOf(a, a % 2 = 0),
      c |-> NunchukCalibrationOf(b) ]
FromDataArgs(seed, n) ==
    [ fn |-> "Classic_from_data", data |-> Bytes(seed, n) ]

\* a 6-byte Nunchuk report: every status byte b against every byte a in
\* each of the three accelerometer positions
NunchukReportOf(a, b) ==
    << a, (a + 37) % 256, a, (a + b) % 256, (a + 74) % 256, b >>

NunchukFromDataArgs(data) ==
    [ fn |-> "Nunchuk_from_data", data |-> data ]

\* the values tried at each position of an identity block: those of the
\* three known blocks and others
IdByteAt(p) ==
    CASE p = 1 -> { 0, 1, 2 }
      [] p = 2 -> { 0, 1 }
      [] p = 3 -> { 164, 0, 165 }
      [] p = 4 -> { 32, 0, 33 }
      [] p = 5 -> { 0, 1, 3, 2 }
      [] OTHER -> { 0, 1, 2 }

IdBlocks ==
    { << b1, b2, b3, b4, b5, b6 >> :
        b1 \in IdByteAt(1), b2 \in IdByteAt(2), b3 \in IdByteAt(3),
        b4 \in IdByteAt(4), b5 \in IdByteAt(5), b6 \in IdByteAt(6) }

\* two identity blocks to classify: id, and id with the byte at p set to v
IdentifyArgs(id, p, v) ==
    [ fn |-> "identify_controller", id |-> id,
      other |-> [ id EXCEPT ![p] = v ] ]

ScaleArgs(fn, v) == [ fn |-> fn, reading |-> v ]

\* a 6-byte Classic report: bytes 0 and 1 take every pair of values, and so
\* do bytes 2 and 3, and bytes 4 and 5
ClassicReportOf(a, b) ==
    << a, b, (a + 2 * b) % 256, (a + b) % 256, b, a >>

\* an 8-byte Classic report in the same way
ClassicHdReportOf(a, b) ==
    << a, b, (a + 2 * b) % 256, (a + b) % 256, (2 * a + b) % 256,
       (a + 3 * b) % 256, b, a >>

DecodeArgs(fn, data) == [ fn |-> fn, data |-> data ]

\* the bits of a 6-byte report that each field of the standard decoder reads,
\* byte by byte
ClassicFieldMask ==
    [ joystick_left_x  |-> << 63, 0, 0, 0, 0, 0 >>,
      joystick_left_y  |-> << 0, 63, 0, 0, 0, 0 >>,
      joystick_right_x |-> << 192, 192, 128, 0, 0, 0 >>,
      joystick_right_y |-> << 0, 0, 31, 0, 0, 0 >>,
      trigger_left     |-> << 0, 0, 96, 224, 0, 0 >>,
      trigger_right    |-> << 0, 0, 0, 31, 0, 0 >>,
      dpad_right       |-> << 0, 0, 0, 0, 128, 0 >>,
      dpad_down        |-> << 0, 0, 0, 0, 64, 0 >>,
      button_trigger_l |-> << 0, 0, 0, 0, 32, 0 >>,
      button_minus     |-> << 0, 0, 0, 0, 16, 0 >>,
      button_home      |-> << 0, 0, 0, 0, 8, 0 >>,
      button_plus      |-> << 0, 0, 0, 0, 4, 0 >>,
      button_trigger_r |-> << 0, 0, 0, 0, 2, 0 >>,
      button_zl        |-> << 0, 0, 0, 0, 0, 128 >>,
      button_b         |-> << 0, 0, 0, 0, 0, 64 >>,
      button_y         |-> << 0, 0, 0, 0, 0, 32 >>,
      button_a         |-> << 0, 0, 0, 0, 0, 16 >>,
      button_x         |-> << 0, 0, 0, 0, 0, 8 >>,
      button_zr        |-> << 0, 0, 0, 0, 0, 4 >>,
      dpad_left        |-> << 0, 0, 0, 0, 0, 2 >>,
      dpad_up          |-> << 0, 0, 0, 0, 0, 1 >> ]

ClassicFields == DOMAIN ClassicFieldMask

\* the byte a with its bits under mask taken from the byte b
WithBits(a, b, mask) ==
    IF mask = 0 THEN a ELSE (a - BitAnd(a, mask)) + BitAnd(b, mask)

\* the report data with the bits of one field taken from the report from
WithField(data, field, from) ==
    [ i \in 1..6 |-> WithBits(data[i], from[i], ClassicFieldMask[field][i]) ]

\* reports to take the bits of a field from: between them the two families
\* give every field every value
SameBytes(x) == [ i \in 1..6 |-> x ]
SpreadBytes(x) ==
    << x, (4 * x) % 256, (16 * x) % 256, (2 * x) % 256, x, x >>

\* the reports whose fields are replaced
PairBases == { CLASSIC_IDLE, CLASSIC_LJOY_L, CLASSIC_RTRIG, SameBytes(0) }

\* two reports that differ at most in the bits of one field
DecodePairArgs(data, field, from) ==
    [ fn |-> "decode_classic_report_pair", field |-> field,
      data |-> data, other |-> WithField(data, field, from) ]

CoreInit ==
    /\ kind = "Classic"
    /\ constructed = FALSE
    /\ hires = FALSE
    /\ calibration = ClassicCalibrationDefault
    /\ baselineFrom = <<>>
    /\ cursor = 0
    /\ bus = <<>>
    /\ calls = <<>>
    /\ ret = [ err |-> "none", val |-> "unit" ]
    /\ decoder = "none"
    /\ \/ \E a \in 0..U8_MAX, b \in 0..U8_MAX :
             arg = ClassicCalibratedArgs(a, b)
       \/ \E a \in 0..U8_MAX, b \in 0..U8_MAX :
             arg = NunchukCalibratedArgs(a, b)
       \/ \E seed \in ByteSeeds, n \in 0..MaxLen :
             arg = FromDataArgs(seed, n)
       \/ \E seed \in ByteSeeds, n \in 0..MaxLen :
             arg = NunchukFromDataArgs(Bytes(seed, n))
       \/ \E a \in 0..U8_MAX, b \in 0..U8_MAX :
             arg = NunchukFromDataArgs(NunchukReportOf(a, b))
       \/ \E data \in { NUNCHUCK_IDLE, NUNCHUCK_BTN_C } :
             arg = NunchukFromDataArgs(data)
       \/ \E id \in IdBlocks, p \in 1..6 : \E v \in IdByteAt(p) :
             arg = IdentifyArgs(id, p, v)
       \/ \E fn \in { "scale_5bit_8bit", "scale_6bit_8bit" }, v \in 0..U8_MAX :
             arg = ScaleArgs(fn, v)
       \/ \E a \in 0..U8_MAX, b \in 0..U8_MAX :
             arg = DecodeArgs("decode_classic_report", ClassicReportOf(a, b))
       \/ \E data \in { CLASSIC_IDLE, CLASSIC_LJOY_L, CLASSIC_RTRIG } :
             arg = DecodeArgs("decode_classic_report", data)
       \/ \E a \in 0..U8_MAX, b \in 0..U8_MAX :
             arg = DecodeArgs("decode_classic_hd_report", ClassicHdReportOf(a, b))
       \/ \E data \in { CLASSIC_HD_IDLE, PDP_LINK_HD_IDLE } :
             arg = DecodeArgs("decode_classic_hd_report", data)
       \/ \E data \in PairBases, field \in ClassicFields, x \in 0..U8_MAX :
             \/ arg = DecodePairArgs(data, field, SameBytes(x))
             \/ arg = DecodePairArgs(data, field, SpreadBytes(x))
    /\ res = [ done |-> FALSE ]

\* the function has returned v
Return(v) ==
    /\ res' = [ done |-> TRUE, v |-> v ]
    /\ UNCHANGED << kind, constructed, hires, calibration, baselineFrom,
                    cursor, bus, calls, ret, decoder, arg >>

Apply_ClassicReadingCalibrated_new ==
    /\ ~res.done
    /\ arg.fn = "ClassicReadingCalibrated_new"
    /\ Return(ClassicReadingCalibrated_new(arg.r, arg.c))

Apply_NunchukReadingCalibrated_new ==
    /\ ~res.done
    /\ arg.fn = "NunchukReadingCalibrated_new"
    /\ Return(NunchukReadingCalibrated_new(arg.r, arg.c))

Apply_Classic_from_data ==
    /\ ~res.done
    /\ arg.fn = "Classic_from_data"
    /\ Return(Classic_from_data(arg.data))

Apply_Nunchuk_from_data ==
    /\ ~res.done
    /\ arg.fn = "Nunchuk_from_data"
    /\ Return(Nunchuk_from_data(arg.data))

\* identify_controller called on each of the two blocks
Apply_identify_controller ==
    /\ ~res.done
    /\ arg.fn = "identify_controller"
    /\ Return(<< identify_controller(arg.id), identify_controller(arg.other) >>)

Apply_scale_5bit_8bit ==
    /\ ~res.done
    /\ arg.fn = "scale_5bit_8bit"
    /\ Return(scale_5bit_8bit(arg.reading))

Apply_scale_6bit_8bit ==
    /\ ~res.done
    /\ arg.fn = "scale_6bit_8bit"
    /\ Return(scale_6bit_8bit(arg.reading))

Apply_decode_classic_report ==
    /\ ~res.done
    /\ arg.fn = "decode_classic_report"
    /\ Return(decode_classic_report(arg.data))

Apply_decode_classic_hd_report ==
    /\ ~res.done
    /\ arg.fn = "decode_classic_hd_report"
    /\ Return(decode_classic_hd_report(arg.data))

\* decode_classic_report on two reports
Apply_decode_classic_report_pair ==
    /\ ~res.done
    /\ arg.fn = "decode_classic_report_pair"
    /\ Return(<< decode_classic_report(arg.data),
                 decode_classic_report(arg.other) >>)

CoreNext ==
    \/ Apply_ClassicReadingCalibrated_new
    \/ Apply_NunchukReadingCalibrated_new
    \/ Apply_Classic_from_data
    \/ Apply_Nunchuk_from_data
    \/ Apply_identify_controller
    \/ Apply_scale_5bit_8bit
    \/ Apply_scale_6bit_8bit
    \/ Apply_decode_classic_report
    \/ Apply_decode_classic_hd_report
    \/ Apply_decode_classic_report_pair

CoreSpec == CoreInit /\ [][CoreNext]_vars

\* ------------------------------------------------ reading the bus trace
LastCall == calls[Len(calls)]

\* the trace of the last call
LastEv == SubSeq(bus, LastCall.at + 1, Len(bus))

IsTx(e) == e.t # "delay"

\* the bus transactions of a trace, delays left out
Tx(evs) == SelectSeq(evs, IsTx)

\* a transaction as the mock bus sees it: address and bytes written, or
\* address and number of bytes read
Shape(e) == IF e.t = "write" THEN << "write", e.addr, e.bytes >>
            ELSE << "read", e.addr, e.n >>
Shapes(evs) == [ i \in 1..Len(Tx(evs)) |-> Shape(Tx(evs)[i]) ]

W(bytes) == << "write", 82, bytes >>
R(n) == << "read", 82, n >>

AllOk(evs) == \A i \in 1..Len(evs) : evs[i].ok

Blocking == kind \in { "Classic", "Nunchuk" }
Async == kind \in { "ClassicAsync", "NunchukAsync" }

\* ---------------------------------------------------------------- claims

\* C1: in the blocking Classic and Nunchuk drivers a successful init() on a
\* driver in standard mode (and so a successful new()) issues exactly five
\* transactions, all to address 0x52: write [0x00], write [0xF0,0x55],
\* write [0xFB,0x00], write [0x00], read of 6 bytes, and nothing else.
C1_InitTransactions ==
    ( /\ Blocking
      /\ calls # <<>>
      /\ LastCall.op \in { "init", "new" }
      /\ LastCall.ok
      /\ ~LastCall.hiresBefore )
    => Shapes(LastEv) = << W(<<0>>), W(<<240, 85>>), W(<<251, 0>>), W(<<0>>), R(6) >>

C1_Witness ==
    /\ Blocking
    /\ Len(calls) = 2
    /\ calls[1].op = "new" /\ calls[1].ok
    /\ calls[2].op = "init" /\ calls[2].ok
    /\ ~hires

\* C2: in the Classic driver (blocking read_report_blocking / read_blocking
\* and async read) a sample read is write [0x00], then a delay of at least
\* 200 microseconds, then exactly one block read, nothing in between (of a
\* call that ran until it returned, its future not dropped on the way).
C2_ClassicSampleRead ==
    ( /\ IsClassic
      /\ calls # <<>>
      /\ ret.err # "Dropped"
      /\ LastCall.op \in { "read_report_blocking", "read_blocking", "read" } )
    => LET e == LastEv
       IN  /\ Len(e) \in 1..3
           /\ e[1].t = "write" /\ e[1].bytes = <<0>>
           /\ (e[1].ok <=> Len(e) = 3)
           /\ Len(e) = 3 => /\ e[2].t = "delay" /\ e[2].us >= 200
                            /\ e[3].t = "read"
           /\ LastCall.ok <=> AllOk(e)

C2_Witness ==
    /\ IsClassic
    /\ calls # <<>>
    /\ LastCall.op \in { "read_blocking", "read" }
    /\ LastCall.ok
    /\ Len(LastEv) = 3

\* C3: the blocking Nunchuk's read_report_blocking (and read_blocking, and
\* the calibration read inside init) writes [0x00], waits 200 microseconds
\* and only then issues the 6-byte read.
C3_NunchukWaitsBeforeRead ==
    ( /\ kind = "Nunchuk"
      /\ calls # <<>>
      /\ LastCall.op \in { "read_report_blocking", "read_blocking", "init", "new" } )
    => \A i \in 1..Len(LastEv) :
          LastEv[i].t = "read"
          => /\ i >= 3
             /\ LastEv[i - 1].t = "delay"
             /\ LastEv[i - 1].us = INTERMESSAGE_DELAY_MICROSEC
             /\ LastEv[i - 2].t = "write" /\ LastEv[i - 2].bytes = <<0>>

\* C4: in every reachable state of the blocking Classic driver a sample read
\* requests 8 bytes when the mode flag is hires and 6 bytes when it is
\* standard, the decoder branch that runs matches that length, and an
\* identity read requests 6 bytes whatever the mode.
C4_ReadSizeFollowsMode ==
    ( kind = "Classic" /\ calls # <<>> )
    => /\ LastCall.op # "identify_controller"
          => /\ \A i \in 1..Len(LastEv) :
                   LastEv[i].t = "read" => LastEv[i].n = IF hires THEN 8 ELSE 6
             /\ LastCall.ok
                   => decoder = IF hires THEN "hires" ELSE "standard"
       /\ LastCall.op = "identify_controller"
          => \A i \in 1..Len(LastEv) : LastEv[i].t = "read" => LastEv[i].n = 6

C4_Witness ==
    /\ kind = "Classic"
    /\ hires
    /\ calls # <<>>
    /\ LastCall.op \in { "read_blocking", "identify_controller" }
    /\ LastCall.ok

\* C5: blocking Classic, new() then enable_hires() then read_blocking(), all
\* succeeding, issue write [0x00], write [0xF0,0x55], write [0xFB,0x00],
\* write [0x00], read 6, write [0xFE,0x03], write [0x00], read 8, write [0x00],
\* read 8; afterwards the mode is hires and the baseline is the one captured
\* from the first 8-byte read, not the 6-byte one.
C5_HiresScenario ==
    ( /\ kind = "Classic"
      /\ Len(calls) = 3
      /\ calls[1].op = "new" /\ calls[1].ok
      /\ calls[2].op = "enable_hires" /\ calls[2].ok
      /\ calls[3].op = "read_blocking" /\ calls[3].ok )
    => /\ Shapes(bus) = << W(<<0>>), W(<<240, 85>>), W(<<251, 0>>), W(<<0>>), R(6),
                           W(<<254, 3>>), W(<<0>>), R(8), W(<<0>>), R(8) >>
       /\ hires
       /\ LET first8 == Tx(bus)[8].bytes
          IN  /\ baselineFrom = first8
              /\ calibration.joystick_left_x = first8[1]
              /\ calibration.joystick_right_x = first8[2]
              /\ calibration.joystick_left_y = first8[3]
              /\ calibration.joystick_right_y = first8[4]
              /\ calibration.trigger_left = first8[5]

C5_Witness ==
    /\ kind = "Classic"
    /\ Len(calls) = 3
    /\ calls[1].op = "new" /\ calls[1].ok
    /\ calls[2].op = "enable_hires" /\ calls[2].ok
    /\ calls[3].op = "read_blocking" /\ calls[3].ok
    /\ Len(baselineFrom) = 8

\* C6: ClassicAsync::enable_hires(), when it succeeds, writes [0xFE,0x03],
\* sets the mode flag to hires and recaptures the baseline from an 8-byte
\* sample.
C6_AsyncEnableHires ==
    ( /\ kind = "ClassicAsync"
      /\ calls # <<>>
      /\ LastCall.op = "enable_hires"
      /\ LastCall.ok )
    => /\ \E i \in 1..Len(LastEv) :
             LastEv[i].t = "write" /\ LastEv[i].bytes = <<254, 3>>
       /\ hires
       /\ Len(baselineFrom) = 8
       /\ \E i \in 1..Len(LastEv) :
             LastEv[i].t = "read" /\ LastEv[i].n = 8 /\ LastEv[i].bytes = baselineFrom

\* C7: identify_controller(), blocking and async, issues write [0xFA] and
\* then one 6-byte read with no other bus write between them, and classifies
\* exactly the bytes that read returned.
C7_IdentifyTransactions ==
    ( /\ calls # <<>>
      /\ LastCall.op = "identify_controller"
      /\ LastCall.ok )
    => /\ Shapes(LastEv) = << W(<<250>>), R(6) >>
       /\ ret.val = identify_controller(Tx(LastEv)[Len(Tx(LastEv))].bytes)

\* C8: after any successful init() of a Classic driver, a re-init after
\* enable_hires() included, the mode flag is standard and the calibration
\* sample inside init requests 6 bytes.
C8_InitLeavesStandard ==
    ( /\ IsClassic
      /\ calls # <<>>
      /\ LastCall.op = "init"
      /\ LastCall.ok )
    => /\ ~hires
       /\ \A i \in 1..Len(LastEv) : LastEv[i].t = "read" => LastEv[i].n = 6

\* C9: blocking Classic::new and Nunchuk::new run init() before returning:
\* a bus fault in init makes new return that error and no driver, and a
\* driver is returned only after both handshake writes succeeded and the
\* baseline was captured from a sample.
C9_NewRunsInit ==
    ( Blocking /\ calls # <<>> /\ LastCall.op = "new" )
    => /\ constructed <=> AllOk(LastEv)
       /\ ~AllOk(LastEv) => ret.err = "I2C" /\ ~LastEv[Len(LastEv)].ok
       /\ constructed
          => /\ ret.err = "none"
             /\ \E i \in 1..Len(LastEv) :
                   LastEv[i] = Wr(<<240, 85>>, TRUE)
             /\ \E i \in 1..Len(LastEv) :
                   LastEv[i] = Wr(<<251, 0>>, TRUE)
             /\ \E i \in 1..Len(LastEv) :
                   /\ LastEv[i].t = "read" /\ LastEv[i].ok
                   /\ LastEv[i].bytes = baselineFrom
                   /\ Len(baselineFrom) = 6

C9_Witness ==
    /\ Blocking
    /\ Len(calls) = 2
    /\ calls[1].op = "new" /\ ~calls[1].ok
    /\ calls[2].op = "new" /\ calls[2].ok
    /\ constructed

\* C10: a driver obtained from ClassicAsync::new / NunchukAsync::new has
\* sent the handshake and captured its baseline, so no read() runs on a
\* driver whose handshake has not been sent or whose baseline is the default.
C10_AsyncNewRunsInit ==
    ( Async /\ calls # <<>> /\ LastCall.op = "read" )
    => /\ \E i \in 1..LastCall.at : bus[i] = Wr(<<240, 85>>, TRUE)
       /\ \E i \in 1..LastCall.at : bus[i] = Wr(<<251, 0>>, TRUE)
       /\ baselineFrom # <<>>

\* C11: in every driver operation a failed bus transaction ends the
\* operation at once: the failed transaction is the last thing the call
\* puts on the bus (no further transaction, no delay, no second attempt),
\* the call returns the bus error, and it returns no reading in its place;
\* a call that returns a value has had no failed transaction.
C11_FailureReturnsAtOnce ==
    calls # <<>>
    => /\ \A i \in 1..Len(LastEv) :
             ~LastEv[i].ok
             => /\ i = Len(LastEv)
                /\ ~LastCall.ok
                /\ ret = [ err |-> "I2C", val |-> "none" ]
       /\ ret.err = "I2C" => ~LastEv[Len(LastEv)].ok
       /\ \A i \in 1..Len(calls) :
             Cardinality({ j \in 1..Len(bus) :
                 /\ ~bus[j].ok
                 /\ j > calls[i].at
                 /\ (i < Len(calls) => j <= calls[i + 1].at) }) <= 1

\* an init() that fails at its second transaction, after another call
C11_Witness ==
    /\ Len(calls) >= 2
    /\ LastCall.op = "init"
    /\ ~LastCall.ok
    /\ Len(Tx(LastEv)) = 2
    /\ ~LastEv[Len(LastEv)].ok
    /\ ret.err = "I2C"

\* C12: on the blocking Classic driver a read_blocking(),
\* read_report_blocking() or identify_controller() call, successful or
\* failed, leaves the mode flag and the stored baseline as they were; an
\* update_calibration() whose sample fails leaves the stored baseline as it
\* was in every field; and whenever the baseline changes, the call has
\* succeeded and every field of the new baseline comes from one new sample.
C12_ReadsKeepBaseline ==
    [][ ( kind = "Classic" /\ calls' # calls )
        => LET c == calls'[Len(calls')]
           IN  /\ c.op \in { "read_blocking", "read_report_blocking",
                             "identify_controller" }
                  => /\ hires' = hires
                     /\ calibration' = calibration
                     /\ baselineFrom' = baselineFrom
               /\ ( c.op = "update_calibration" /\ ~c.ok )
                  => /\ calibration' = calibration
                     /\ baselineFrom' = baselineFrom
               /\ calibration' # calibration
                  => /\ c.ok
                     /\ c.op \in { "new", "init", "enable_hires",
                                   "update_calibration" }
                     /\ baselineFrom' # baselineFrom
                     /\ calibration' = ClassicCalibrationFrom(
                                           Classic_from_data(baselineFrom').v)
      ]_vars

\* an update_calibration() that failed right after a read or identify call,
\* on a driver with a baseline stored
C12_Witness ==
    /\ kind = "Classic"
    /\ Len(calls) = 3
    /\ calls[2].op \in { "read_blocking", "read_report_blocking",
                         "identify_controller" }
    /\ calls[3].op = "update_calibration"
    /\ ~calls[3].ok
    /\ Len(baselineFrom) = 6
    /\ calibration # ClassicCalibrationDefault

\* C13: on a blocking driver, whatever calls and bus faults came before, an
\* init() whose transactions all succeed sends write [0x00], write
\* [0xF0,0x55], write [0xFB,0x00], then takes one new sample (write [0x00]
\* and a block read) and stores as baseline the analog axes of that sample:
\* each baseline field is the same axis of the sample just read.
C13_InitRerunsAll ==
    ( /\ Blocking
      /\ calls # <<>>
      /\ LastCall.op = "init"
      /\ LastCall.ok )
    => /\ Len(Tx(LastEv)) = 5
       /\ SubSeq(Shapes(LastEv), 1, 4)
             = << W(<<0>>), W(<<240, 85>>), W(<<251, 0>>), W(<<0>>) >>
       /\ Tx(LastEv)[5].t = "read"
       /\ AllOk(LastEv)
       /\ baselineFrom = Tx(LastEv)[5].bytes
       /\ IF kind = "Classic"
          THEN LET sample == Classic_from_data(Tx(LastEv)[5].bytes).v
               IN  calibration =
                     [ joystick_left_x  |-> sample.joystick_left_x,
                       joystick_left_y  |-> sample.joystick_left_y,
                       joystick_right_x |-> sample.joystick_right_x,
                       joystick_right_y |-> sample.joystick_right_y,
                       trigger_left     |-> sample.trigger_left,
                       trigger_right    |-> sample.trigger_right ]
          ELSE LET sample == Nunchuk_from_data(Tx(LastEv)[5].bytes).v
               IN  calibration = [ joystick_x |-> sample.joystick_x,
                                   joystick_y |-> sample.joystick_y ]

\* the delay the driver has put between event i of a trace and the closest
\* transaction before it (or the start of the trace), in microseconds
RECURSIVE DelayBefore(_, _)
DelayBefore(evs, i) ==
    IF i = 1 \/ IsTx(evs[i - 1]) THEN 0
    ELSE evs[i - 1].us + DelayBefore(evs, i - 1)

\* where the trace of the current driver instance starts: at its new()
InstanceStart ==
    LET news == { i \in 1..Len(calls) : calls[i].op = "new" }
    IN  IF news = {} THEN 1
        ELSE calls[CHOOSE i \in news : \A j \in news : j <= i].at + 1

\* C14: over any sequence of calls on one driver instance, every bus
\* transaction but the first comes after a driver-issued delay of at least
\* 200 microseconds since the transaction before it.
C14_DelayBetweenTransactions ==
    \A i \in InstanceStart..Len(bus) :
       ( /\ IsTx(bus[i])
         /\ \E j \in InstanceStart..(i - 1) : IsTx(bus[j]) )
       => DelayBefore(bus, i) >= INTERMESSAGE_DELAY_MICROSEC

\* the delay the driver puts after event i of a trace before its next
\* transaction (or the end of the trace), in microseconds
RECURSIVE DelayAfter(_, _)
DelayAfter(evs, i) ==
    IF i = Len(evs) \/ IsTx(evs[i + 1]) THEN 0
    ELSE evs[i + 1].us + DelayAfter(evs, i + 1)

\* the positions, in the trace of the last call, of its cursor/register
\* writes: the three handshake writes of init (and of the blocking new),
\* the resolution write of enable_hires
HandshakeWrites ==
    LET txAt == { i \in 1..Len(LastEv) : IsTx(LastEv[i]) }
        nth(i) == Cardinality({ j \in txAt : j <= i })
    IN  IF LastCall.op \in { "init", "new" }
        THEN { i \in txAt : nth(i) <= 3 }
        ELSE IF LastCall.op = "enable_hires"
        THEN { i \in txAt : nth(i) = 1 }
        ELSE {}

\* C15: in the handshake of init() and in enable_hires(), blocking and
\* async, every cursor/register write comes at least 400 microseconds of
\* driver-issued delay after the transaction before it and, once it has
\* succeeded, is followed by at least 400 microseconds of delay before the
\* next transaction.
C15_HandshakeDelays ==
    calls # <<>>
    => \A i \in HandshakeWrites :
          /\ LastEv[i].t = "write"
          /\ DelayBefore(bus, LastCall.at + i)
                >= 2 * INTERMESSAGE_DELAY_MICROSEC
          /\ LastEv[i].ok
             => DelayAfter(LastEv, i) >= 2 * INTERMESSAGE_DELAY_MICROSEC

\* C17: on the Classic driver, a successful calibrated read whose report is
\* the very report the stored baseline was captured from returns 0 on all
\* six analog axes: both sticks in X and Y, left trigger and right trigger.
C17_SameReportReadsZero ==
    ( /\ IsClassic
      /\ calls # <<>>
      /\ LastCall.op \in { "read_blocking", "read" }
      /\ LastCall.ok
      /\ Tx(LastEv)[Len(Tx(LastEv))].bytes = baselineFrom )
    => /\ ret.val.joystick_left_x = 0
       /\ ret.val.joystick_left_y = 0
       /\ ret.val.joystick_right_x = 0
       /\ ret.val.joystick_right_y = 0
       /\ ret.val.trigger_left = 0
       /\ ret.val.trigger_right = 0

\* C18: blocking Nunchuk: when the read_blocking() that follows new()
\* returns the same report as the calibration sample, the calibrated
\* joystick_x and joystick_y are both 0, button_c and button_z are the
\* (active-low) bits 1 and 0 of byte 5 of that report, and accel_x, accel_y
\* and accel_z are the decoded 10-bit values of that report, unchanged.
C18_NunchukIdleCalibrated ==
    ( /\ kind = "Nunchuk"
      /\ Len(calls) >= 2
      /\ calls[Len(calls) - 1].op = "new"
      /\ calls[Len(calls) - 1].ok
      /\ LastCall.op = "read_blocking"
      /\ LastCall.ok
      /\ Tx(LastEv)[Len(Tx(LastEv))].bytes = baselineFrom )
    => LET d == baselineFrom
           raw == Nunchuk_from_data(d).v
       IN  /\ Len(d) = 6
           /\ ret.err = "none"
           /\ ret.val.joystick_x = 0
           /\ ret.val.joystick_y = 0
           /\ ret.val.button_c = ((d[6] \div 2) % 2 = 0)
           /\ ret.val.button_z = (d[6] % 2 = 0)
           /\ ret.val.accel_x = raw.accel_x
           /\ ret.val.accel_y = raw.accel_y
           /\ ret.val.accel_z = raw.accel_z
           /\ raw.accel_x \in 0..1023 /\ raw.accel_x \div 4 = d[3]
           /\ raw.accel_y \in 0..1023 /\ raw.accel_y \div 4 = d[4]
           /\ raw.accel_z \in 0..1023 /\ raw.accel_z \div 4 = d[5]

\* new() and read_blocking() both saw the report with button C held
C18_Witness ==
    /\ kind = "Nunchuk"
    /\ Len(calls) = 2
    /\ calls[1].op = "new" /\ calls[1].ok
    /\ calls[2].op = "read_blocking" /\ calls[2].ok
    /\ baselineFrom = NUNCHUCK_BTN_C
    /\ Tx(LastEv)[Len(Tx(LastEv))].bytes = NUNCHUCK_BTN_C
    /\ ret.val.button_c
    /\ ~ret.val.button_z

\* C19: ClassicReadingCalibrated::new and NunchukReadingCalibrated::new
\* return, for every analog axis and every raw and baseline value in
\* 0..255, the difference raw - baseline limited to -128..127 (never a
\* wrapped value), and copy every other field of the reading unchanged.
C19_CalibrationClamps ==
    ( res.done /\ arg.fn \in { "ClassicReadingCalibrated_new",
                               "NunchukReadingCalibrated_new" } )
    => LET axes == IF arg.fn = "ClassicReadingCalibrated_new"
                   THEN ClassicAxes ELSE NunchukAxes
           Min(x, y) == IF x < y THEN x ELSE y
           Max(x, y) == IF x > y THEN x ELSE y
       IN  /\ DOMAIN res.v = DOMAIN arg.r
           /\ DOMAIN arg.c = axes
           /\ \A f \in axes :
                 /\ arg.r[f] \in 0..255 /\ arg.c[f] \in 0..255
                 /\ res.v[f] = Max(-128, Min(127, arg.r[f] - arg.c[f]))
           /\ \A f \in DOMAIN arg.r \ axes : res.v[f] = arg.r[f]

\* raw 255 against baseline 0 gives 127, and on another axis of the same
\* reading a raw value below its baseline by more than 128 gives -128
C19_Witness ==
    /\ res.done
    /\ arg.fn = "ClassicReadingCalibrated_new"
    /\ arg.r.joystick_left_x = 255 /\ arg.c.joystick_left_x = 0
    /\ res.v.joystick_left_x = 127
    /\ \E f \in ClassicAxes :
          arg.r[f] - arg.c[f] < -128 /\ res.v[f] = -128
    /\ res.v.button_a # res.v.button_y

\* C20: ClassicReading::from_data returns the standard decoding of every
\* 6-byte input, the high-resolution decoding of every 8-byte input, and
\* no reading for every other length (0..5, 7, 9 and above).
C20_FromDataByLength ==
    ( res.done /\ arg.fn = "Classic_from_data" )
    => LET n == Len(arg.data)
       IN  /\ n = 6 => res.v = Some(decode_classic_report(arg.data))
           /\ n = 8 => res.v = Some(decode_classic_hd_report(arg.data))
           /\ n \notin { 6, 8 } => res.v = None

\* a 7-byte input has been refused
C20_Witness ==
    /\ res.done
    /\ arg.fn = "Classic_from_data"
    /\ Len(arg.data) = 7
    /\ res.v = None

\* C21: NunchukReading::from_data returns a reading for an input of exactly
\* 6 bytes and for no other input: every shorter and every longer input is
\* refused.
C21_NunchukExactlySix ==
    ( res.done /\ arg.fn = "Nunchuk_from_data" )
    => ( res.v.some <=> Len(arg.data) = 6 )

\* C22: identify_controller(id) is Unrecognized (None) when id[2] is not
\* 0xA4 or id[3] is not 0x20, whatever the other bytes; otherwise it is
\* Nunchuk for (id[0],id[1],id[4],id[5]) = (0,0,0,0), Classic for (0,0,3,1),
\* ClassicPro for (1,0,1,1) and Unrecognized for anything else; so
\* [0,0,164,32,3,1] is Classic and [1,0,164,32,1,1] is ClassicPro.
C22_IdentifyTable ==
    ( res.done /\ arg.fn = "identify_controller" )
    => LET id == arg.id
           key == << id[1], id[2], id[5], id[6] >>
           type == res.v[1]
       IN  /\ ( id[3] # 164 \/ id[4] # 32 ) => type = "None"
           /\ ( id[3] = 164 /\ id[4] = 32 )
              => type = ( CASE key = << 0, 0, 0, 0 >> -> "Nunchuk"
                            [] key = << 0, 0, 3, 1 >> -> "Classic"
                            [] key = << 1, 0, 1, 1 >> -> "ClassicPro"
                            [] OTHER -> "None" )
           /\ id = << 0, 0, 164, 32, 3, 1 >> => type = "Classic"
           /\ id = << 1, 0, 164, 32, 1, 1 >> => type = "ClassicPro"

\* the ClassicPro block has been classified
C22_Witness ==
    /\ res.done
    /\ arg.fn = "identify_controller"
    /\ arg.id = << 1, 0, 164, 32, 1, 1 >>
    /\ res.v[1] = "ClassicPro"

\* C23 as stated: two identity blocks that agree on the four positions 0, 1,
\* 4 and 5 classify to the same controller type, bytes 2 and 3 being
\* don't-care.
C23_FourBytesDecide ==
    ( /\ res.done
      /\ arg.fn = "identify_controller"
      /\ \A p \in { 1, 2, 5, 6 } : arg.id[p] = arg.other[p] )
    => res.v[1] = res.v[2]

\* C23 amended: the classification depends on all six bytes. A block that
\* classifies as Nunchuk, Classic or ClassicPro becomes Unrecognized when
\* any single one of its six bytes is changed, and two blocks that both fail
\* the test of bytes 2 and 3 classify the same, as Unrecognized.
C23_SixBytesDecide ==
    ( res.done /\ arg.fn = "identify_controller" )
    => LET differ == { p \in 1..6 : arg.id[p] # arg.other[p] }
           fails(id) == id[3] # 164 \/ id[4] # 32
       IN  /\ ( res.v[1] # "None" /\ Cardinality(differ) = 1 )
              => res.v[2] = "None"
           /\ ( fails(arg.id) /\ fails(arg.other) )
              => res.v[1] = "None" /\ res.v[2] = "None"

\* the Classic block and the same block with byte 2 changed
C23_Witness ==
    /\ res.done
    /\ arg.fn = "identify_controller"
    /\ arg.id = CLASSIC_ID
    /\ arg.other = << 0, 0, 165, 32, 3, 1 >>
    /\ res.v = << "Classic", "None" >>

\* C24: scale_5bit_8bit(v) is floor(v * 255 / 31) for every v in 0..31, is
\* 0 for 0 and 255 for 31, and is monotonic (larger than the scaled value
\* of every smaller v); scale_6bit_8bit(v) is floor(v * 255 / 63) for every
\* v in 0..63, is 0 for 0 and 255 for 63, and is monotonic in the same
\* way; neither result exceeds 255.
C24_ScaleExact ==
    ( res.done /\ arg.fn \in { "scale_5bit_8bit", "scale_6bit_8bit" } )
    => LET top == IF arg.fn = "scale_5bit_8bit" THEN 31 ELSE 63
           v == arg.reading
       IN  /\ res.v \in 0..255
           /\ v <= top
              => /\ res.v = (v * 255) \div top
                 /\ v = 0 => res.v = 0
                 /\ v = top => res.v = 255
                 /\ \A w \in 0..(v - 1) : (w * 255) \div top < res.v

\* the largest 5-bit value has been scaled to 255
C24_Witness ==
    /\ res.done
    /\ arg.fn = "scale_5bit_8bit"
    /\ arg.reading = 31
    /\ res.v = 255

\* C25: for every 6-byte Classic report d the standard decoder yields
\* left X = scale6(d[0] & 0x3F), left Y = scale6(d[1] & 0x3F),
\* right X = scale5(RX) with RX bits 4:3 = d[0] bits 7:6, bits 2:1 = d[1]
\* bits 7:6 and bit 0 = d[2] bit 7, right Y = scale5(d[2] & 0x1F),
\* left trigger = scale5(LT) with LT bits 4:3 = d[2] bits 6:5 and bits 2:0 =
\* d[3] bits 7:5, right trigger = scale5(d[3] & 0x1F); RX and LT lie in
\* 0..31 and the 6-bit fields in 0..63. (Bytes are numbered from 1 here.)
C25_StandardAnalogLayout ==
    ( res.done /\ arg.fn = "decode_classic_report" )
    => LET d == arg.data
           scale5(v) == (v * 255) \div 31
           scale6(v) == (v * 255) \div 63
           RX == (d[1] \div 64) * 8 + (d[2] \div 64) * 2 + (d[3] \div 128)
           LT == ((d[3] \div 32) % 4) * 8 + (d[4] \div 32)
       IN  /\ RX \in 0..31 /\ LT \in 0..31
           /\ d[1] % 64 \in 0..63 /\ d[2] % 64 \in 0..63
           /\ res.v.joystick_left_x = scale6(d[1] % 64)
           /\ res.v.joystick_left_y = scale6(d[2] % 64)
           /\ res.v.joystick_right_x = scale5(RX)
           /\ res.v.joystick_right_y = scale5(d[3] % 32)
           /\ res.v.trigger_left = scale5(LT)
           /\ res.v.trigger_right = scale5(d[4] % 32)

\* a report whose right X and left trigger both take bits from two bytes
C25_Witness ==
    /\ res.done
    /\ arg.fn = "decode_classic_report"
    /\ arg.data = CLASSIC_IDLE
    /\ res.v.joystick_left_x = 133
    /\ res.v.joystick_left_y = 129
    /\ res.v.joystick_right_x = 123
    /\ res.v.joystick_right_y = 139
    /\ res.v.trigger_left = 24
    /\ res.v.trigger_right = 24

\* the bit of each digital input: which of the two button bytes, which bit
ButtonBit ==
    [ dpad_right       |-> << 1, 7 >>,
      dpad_down        |-> << 1, 6 >>,
      button_trigger_l |-> << 1, 5 >>,
      button_minus     |-> << 1, 4 >>,
      button_home      |-> << 1, 3 >>,
      button_plus      |-> << 1, 2 >>,
      button_trigger_r |-> << 1, 1 >>,
      button_zl        |-> << 2, 7 >>,
      button_b         |-> << 2, 6 >>,
      button_y         |-> << 2, 5 >>,
      button_a         |-> << 2, 4 >>,
      button_x         |-> << 2, 3 >>,
      button_zr        |-> << 2, 2 >>,
      dpad_left        |-> << 2, 1 >>,
      dpad_up          |-> << 2, 0 >> ]

\* C26: in both Classic report formats each of the 15 digital inputs (4
\* d-pad directions, 11 buttons) is pressed exactly when its own bit of the
\* last two bytes of the report is 0, at the same bit positions in both
\* formats; no input reads bit 0 of the first button byte. So 0xFF,0xFF is
\* nothing pressed and one cleared bit is that one input and no other.
C26_ButtonsActiveLow ==
    ( res.done /\ arg.fn \in { "decode_classic_report",
                               "decode_classic_hd_report" } )
    => LET d == arg.data
           first == Len(d) - 2
           pressed == { f \in DOMAIN ButtonBit : res.v[f] }
           clear == { f \in DOMAIN ButtonBit :
                        (d[first + ButtonBit[f][1]]
                            \div (2 ^ ButtonBit[f][2])) % 2 = 0 }
       IN  /\ DOMAIN res.v = DOMAIN ButtonBit \cup ClassicAxes
           /\ Cardinality(DOMAIN ButtonBit) = 15
           /\ pressed = clear
           /\ ( d[first + 1] \in { 254, 255 } /\ d[first + 2] = 255 )
              => pressed = {}

\* a standard report with only the bit of button A cleared
C26_Witness ==
    /\ res.done
    /\ arg.fn = "decode_classic_report"
    /\ arg.data[5] = 255
    /\ arg.data[6] = 239
    /\ { f \in DOMAIN ButtonBit : res.v[f] } = { "button_a" }

\* C27: for every 8-byte Classic report h the high-resolution decoder
\* returns the analog channels as the bytes themselves, not rescaled:
\* left X = h[0], right X = h[1], left Y = h[2], right Y = h[3], left
\* trigger = h[4], right trigger = h[5]. (Bytes are numbered from 1 here.)
C27_HiresAnalogBytes ==
    ( res.done /\ arg.fn = "decode_classic_hd_report" )
    => /\ res.v.joystick_left_x = arg.data[1]
       /\ res.v.joystick_right_x = arg.data[2]
       /\ res.v.joystick_left_y = arg.data[3]
       /\ res.v.joystick_right_y = arg.data[4]
       /\ res.v.trigger_left = arg.data[5]
       /\ res.v.trigger_right = arg.data[6]

\* the idle report of a Classic controller in high resolution
C27_Witness ==
    /\ res.done
    /\ arg.fn = "decode_classic_hd_report"
    /\ arg.data = CLASSIC_HD_IDLE
    /\ res.v.joystick_left_x = 132
    /\ res.v.joystick_right_x = 127
    /\ res.v.joystick_left_y = 130
    /\ res.v.joystick_right_y = 136
    /\ res.v.trigger_left = 31
    /\ res.v.trigger_right = 26

\* C28: for every 6-byte Nunchuk report d: joystick_x = d[0], joystick_y =
\* d[1], accel_x = d[2]*4 + (d[5] bits 7:6), accel_y = d[3]*4 + (d[5] bits
\* 5:4), accel_z = d[4]*4 + (d[5] bits 3:2), each below 1024; button_c is
\* pressed exactly when bit 1 of d[5] is 0 and button_z exactly when bit 0
\* of d[5] is 0; [127,128,122,138,171,181] decodes to button_c pressed and
\* button_z not pressed. (Bytes are numbered from 1 here.)
C28_NunchukLayout ==
    ( res.done /\ arg.fn = "Nunchuk_from_data" /\ Len(arg.data) = 6 )
    => LET d == arg.data
           r == res.v.v
       IN  /\ res.v.some
           /\ r.joystick_x = d[1]
           /\ r.joystick_y = d[2]
           /\ r.accel_x = d[3] * 4 + (d[6] \div 64)
           /\ r.accel_y = d[4] * 4 + ((d[6] \div 16) % 4)
           /\ r.accel_z = d[5] * 4 + ((d[6] \div 4) % 4)
           /\ r.accel_x < 1024 /\ r.accel_y < 1024 /\ r.accel_z < 1024
           /\ r.button_c = ((d[6] \div 2) % 2 = 0)
           /\ r.button_z = (d[6] % 2 = 0)
           /\ d = << 127, 128, 122, 138, 171, 181 >>
              => r.button_c /\ ~r.button_z

\* the report with button C held has been decoded
C28_Witness ==
    /\ res.done
    /\ arg.fn = "Nunchuk_from_data"
    /\ arg.data = NUNCHUCK_BTN_C
    /\ res.v.some
    /\ res.v.v.button_c
    /\ ~res.v.v.button_z
    /\ res.v.v.accel_x = 490

\* C29: Classic in standard mode: [97,224,145,99,255,255] decodes with no
\* button and no d-pad direction pressed; once the baseline has been
\* captured from that block, a read_blocking() returning
\* [73,225,145,99,255,255] yields a calibrated left-stick X of at most -90,
\* left Y, right X, right Y and both triggers within 8 of zero, and no
\* button pressed.
C29_LeftStickScenario ==
    ( /\ kind = "Classic"
      /\ calls # <<>>
      /\ LastCall.ok
      /\ ~hires )
    => LET d == Tx(LastEv)[Len(Tx(LastEv))].bytes
           digital == DOMAIN ret.val \ ClassicAxes
       IN  /\ ( LastCall.op \in { "read_report_blocking", "read_blocking" }
                /\ d = << 97, 224, 145, 99, 255, 255 >> )
              => /\ Cardinality(digital) = 15
                 /\ \A f \in digital : ~ret.val[f]
           /\ ( LastCall.op = "read_blocking"
                /\ baselineFrom = << 97, 224, 145, 99, 255, 255 >>
                /\ d = << 73, 225, 145, 99, 255, 255 >> )
              => /\ ret.val.joystick_left_x <= -90
                 /\ \A f \in ClassicAxes \ { "joystick_left_x" } :
                       ret.val[f] \in -8..8
                 /\ \A f \in digital : ~ret.val[f]

\* new() calibrated on the idle block and read_blocking() then returned the
\* block with the left stick pushed left
C29_Witness ==
    /\ kind = "Classic"
    /\ Len(calls) = 2
    /\ calls[1].op = "new" /\ calls[1].ok
    /\ calls[2].op = "read_blocking" /\ calls[2].ok
    /\ baselineFrom = CLASSIC_IDLE
    /\ Tx(LastEv)[Len(Tx(LastEv))].bytes = CLASSIC_LJOY_L_V0
    /\ ret.val.joystick_left_x = -97
    /\ ret.val.joystick_left_y = 4

\* C30: in every reachable state of the blocking Classic driver, whatever
\* calls and bus faults led to it, the stored baseline was captured from a
\* sample of the format of the current mode: from an 8-byte sample when the
\* mode flag is hires, from a 6-byte sample when it is standard.
C30_BaselineMatchesMode ==
    ( kind = "Classic" /\ constructed )
    => Len(baselineFrom) = IF hires THEN 8 ELSE 6

\* the sample reports and the identity blocks the device can hold
SampleBlocks == { c.s6 : c \in Contents } \cup { c.s8 : c \in Contents }
IdentityBlocks == { c.id : c \in Contents }

\* the reads of the last call that fetch sample data: all of them but the
\* identity read of the blocking drivers' read_id
IsSampleRead(i) ==
    /\ LastEv[i].t = "read"
    /\ ~(Blocking /\ LastCall.op = "identify_controller")

\* the event at j is a completed write [0x00] and only delays separate it from
\* the event at i
CursorResetBefore(i, j) ==
    /\ j < i
    /\ LastEv[j] = Wr(<< 0 >>, TRUE)
    /\ \A k \in (j + 1)..(i - 1) : LastEv[k].t = "delay"

\* the events of the n-th call
EvOf(n) ==
    SubSeq(bus, calls[n].at + 1,
           IF n = Len(calls) THEN Len(bus) ELSE calls[n + 1].at)

\* C31: every block read of sample data comes, within the same driver call,
\* right after a completed write [0x00] with nothing but delays in between, and
\* a successful one returns the device's sample report (the bytes at register
\* 0), never the identity block or unrelated memory, whatever the calls before
\* it did: an identification, a failed call or an async call whose future was
\* dropped between its cursor write and its block read.
C31_SampleReadResetsCursor ==
    calls # << >> =>
       \A i \in 1..Len(LastEv) :
          IsSampleRead(i) =>
             /\ \E j \in 1..Len(LastEv) : CursorResetBefore(i, j)
             /\ LastEv[i].ok =>
                   /\ LastEv[i].bytes \in SampleBlocks
                   /\ LastEv[i].bytes \notin IdentityBlocks \cup { Filler(6), Filler(8) }

\* an async read that succeeds right after a read whose future was dropped
\* between the cursor write and the block read
C31_Witness ==
    /\ Async
    /\ Len(calls) = 3
    /\ calls[2].op = "read" /\ ~calls[2].ok
    /\ Shapes(EvOf(2)) = << W(<< 0 >>) >>
    /\ AllOk(EvOf(2))
    /\ LastCall.op = "read" /\ LastCall.ok
    /\ \E i \in 1..Len(LastEv) : IsSampleRead(i) /\ LastEv[i].bytes \in SampleBlocks

\* what a caller and the bus observe of a call: its transactions with their
\* bytes and outcomes (delays left out), what it returns, and the driver state
\* it leaves behind
Observed(m) ==
    [ tx |-> Tx(m.ev), err |-> m.err,
      val |-> IF m.err = "none" THEN m.val ELSE "none",
      hires |-> m.hires, calibration |-> m.calibration, cursor |-> m.cursor ]

\* C32: from any state of a Classic driver in standard mode and for the same
\* bus responses (device contents and position of a bus fault), init() of the
\* blocking Classic and of ClassicAsync issue the same transactions and leave
\* the same calibration, and read_blocking() and read() issue the same
\* transactions and return the same calibrated reading; as both leave the same
\* driver state the same holds of init() followed by any number of reads.
C32_BlockingAsyncEquivalent ==
    (IsClassic /\ constructed /\ ~hires) =>
       \A f \in 0..MaxFailAt, c \in Contents :
          /\ Observed(Classic_init(Machine(f, c)))
                = Observed(ClassicAsync_init(Machine(f, c)))
          /\ Observed(Classic_read_blocking(Machine(f, c)))
                = Observed(ClassicAsync_read(Machine(f, c)))

\* a Classic driver of either kind has run init() and then a calibrated read
\* in standard mode, and the reading is the one both drivers compute
C32_Witness ==
    /\ IsClassic /\ ~hires
    /\ Len(calls) = 3
    /\ calls[2].op = "init" /\ calls[2].ok
    /\ LastCall.op \in { "read_blocking", "read" } /\ LastCall.ok
    /\ Shapes(LastEv) = << W(<< 0 >>), R(6) >>
    /\ \E c \in Contents :
          /\ ret.val = Classic_read_blocking(Machine(0, c)).val
          /\ ret.val = ClassicAsync_read(Machine(0, c)).val
          /\ Tx(LastEv) = Tx(ClassicAsync_read(Machine(0, c)).ev)

\* C33: no call of a driver returns InvalidInputData: every block read that
\* completes fills a buffer of exactly 6 or 8 bytes, which from_data always
\* decodes, so a call either succeeds or returns the bus error (an async call
\* whose future was dropped returns nothing at all).
C33_NeverInvalidInputData ==
    calls # << >> =>
       /\ ret.err # "InvalidInputData"
       /\ ret.err \in { "none", "I2C", "Dropped" }
       /\ Blocking => ret.err \in { "none", "I2C" }
       /\ \A i \in 1..Len(LastEv) :
             (LastEv[i].t = "read" /\ LastEv[i].ok) =>
                /\ Len(LastEv[i].bytes) \in { 6, 8 }
                /\ Classic_from_data(LastEv[i].bytes).some
                /\ Nunchuk_from_data(LastEv[i].bytes).some

\* a blocking Classic driver in high-resolution mode has read and decoded an
\* 8-byte report
C33_Witness ==
    /\ kind = "Classic" /\ hires
    /\ calls # << >>
    /\ LastCall.op = "read_blocking" /\ LastCall.ok
    /\ ret.err = "none"
    /\ decoder = "hires"
    /\ \E i \in 1..Len(LastEv) :
          LastEv[i].t = "read" /\ LastEv[i].ok /\ Len(LastEv[i].bytes) = 8

\* the masks of the fields share no bit and together cover every bit of bytes
\* 0-3 and all bits but bit 0 of byte 4 and every bit of byte 5
FieldsPartitionReport ==
    /\ \A f \in ClassicFields, g \in ClassicFields : \A i \in 1..6 :
          (f # g /\ ClassicFieldMask[f][i] # 0 /\ ClassicFieldMask[g][i] # 0)
             => BitAnd(ClassicFieldMask[f][i], ClassicFieldMask[g][i]) = 0
    /\ \A i \in 1..6 :
          \E used \in { IF i = 5 THEN 254 ELSE 255 } :
             \A k \in 0..7 :
                Bit(used, k) = 1 <=>
                   \E f \in ClassicFields : Bit(ClassicFieldMask[f][i], k) = 1

\* C34: the fields of the standard decoder partition the 47 used bits of a
\* report, and two reports that differ only in the bits of one field decode to
\* readings that are equal in every other field (the other axes and all other
\* digital inputs) and differ in that field exactly when the reports differ.
C34_FieldsIndependent ==
    (res.done /\ arg.fn = "decode_classic_report_pair") =>
       /\ FieldsPartitionReport
       /\ \A g \in ClassicFields \ { arg.field } : res.v[1][g] = res.v[2][g]
       /\ (arg.data # arg.other) <=> (res.v[1][arg.field] # res.v[2][arg.field])

\* the right stick's X axis, whose bits lie in three bytes, was changed and
\* both reports were decoded
C34_Witness ==
    /\ res.done /\ arg.fn = "decode_classic_report_pair"
    /\ arg.field = "joystick_right_x"
    /\ \A i \in 1..3 : arg.data[i] # arg.other[i]
    /\ res.v[1].joystick_right_x # res.v[2].joystick_right_x
    /\ res.v[1].joystick_left_x = res.v[2].joystick_left_x

\* the calibrated reading of the last call's arguments with the raw value of
\* axis f one step higher
NextRawCalibrated(f) ==
    IF arg.fn = "ClassicReadingCalibrated_new"
    THEN ClassicReadingCalibrated_new([ arg.r EXCEPT ![f] = @ + 1 ], arg.c)
    ELSE NunchukReadingCalibrated_new([ arg.r EXCEPT ![f] = @ + 1 ], arg.c)

\* C35: for every analog axis and all raw and baseline values in 0..255 the
\* calibrated value is 0 exactly when raw = baseline, negative exactly when
\* raw < baseline and positive exactly when raw > baseline, and for a fixed
\* baseline it does not decrease when the raw value goes up by one (and so
\* is monotone non-decreasing in the raw value).
C35_SignAndMonotone ==
    ( res.done /\ arg.fn \in { "ClassicReadingCalibrated_new",
                               "NunchukReadingCalibrated_new" } )
    => \A f \in (IF arg.fn = "ClassicReadingCalibrated_new"
                 THEN ClassicAxes ELSE NunchukAxes) :
          /\ res.v[f] = 0 <=> arg.r[f] = arg.c[f]
          /\ res.v[f] < 0 <=> arg.r[f] < arg.c[f]
          /\ res.v[f] > 0 <=> arg.r[f] > arg.c[f]
          /\ arg.r[f] < U8_MAX => res.v[f] <= NextRawCalibrated(f)[f]

\* one reading has an axis clamped at the top that stays there one step up,
\* an axis clamped at the bottom, an axis at its baseline and axes strictly
\* between
C35_Witness ==
    /\ res.done
    /\ arg.fn = "ClassicReadingCalibrated_new"
    /\ \E f \in ClassicAxes :
          /\ arg.r[f] - arg.c[f] > I8_MAX /\ arg.r[f] < U8_MAX
          /\ res.v[f] = I8_MAX /\ NextRawCalibrated(f)[f] = I8_MAX
    /\ \E f \in ClassicAxes : arg.r[f] - arg.c[f] < I8_MIN /\ res.v[f] = I8_MIN
    /\ \E f \in ClassicAxes : arg.r[f] = arg.c[f] /\ res.v[f] = 0
    /\ \E f \in ClassicAxes : res.v[f] \in 1..(I8_MAX - 1)

\* a blocking Nunchuk was constructed and then read once, both with success,
\* and nothing else was called
NewThenReadBlocking ==
    /\ kind = "Nunchuk"
    /\ Len(calls) = 2
    /\ calls[1].op = "new" /\ calls[1].ok
    /\ calls[2].op = "read_blocking" /\ calls[2].ok

====
